---- MODULE Spec2Model ----
(***************************************************************************)
(* The file-based staleness cache of trello-tracker                        *)
(* (src/src/services/cacheService.js) as a state machine.                  *)
(*                                                                         *)
(* One foreground caller (task 0) issues get / set / delete; each call is *)
(* a sequence of awaited file-system operations, one atomic step per       *)
(* await.  get starts fire-and-forget refreshCache tasks (tasks 1..),      *)
(* whose steps interleave with the caller's.  The clock (Date.now()) only  *)
(* moves forward.  Every file-system call can fail the way the code's      *)
(* catch blocks distinguish: with code ENOENT, or with another code.       *)
(***************************************************************************)
EXTENDS Integers, FiniteSets, Sequences, TLC

\* ---------------------------------------------------------------- bounds
MaxTime == 2        \* the clock runs over 0..MaxTime
MaxRefresh == 1     \* background refresh tasks that can be in flight

\* ------------------------------------------------------------- encodings
Null == 0           \* JavaScript null: what get returns for a miss
Undefined == -1     \* a field a parsed object does not have
NaN == -2           \* Date.now() - undefined

Keys == {"boards"}
Values == {1, 2}     \* opaque payloads: the cache never looks inside one

Main == 0
Background == 1..MaxRefresh
Tasks == 0..MaxRefresh

\* constructor options {lifetime, staleAfter}, in clock ticks
DefaultOptions == [lifetime |-> 1, staleAfter |-> 0]
MisconfiguredOptions == [lifetime |-> 0, staleAfter |-> 1]

VARIABLES
    now,            \* Date.now()
    dirExists,      \* the cache directory exists
    files,          \* files[k]: content of <cachePath>/<k>.json
    task,           \* task[t]: the call task t is executing, and its locals
    settled,        \* how the last finished refresh promise settled
    cacheLifetime,  \* this.cacheLifetime
    staleAfter,     \* this.staleAfter
    service,        \* the output service in use: "csv", "sheets" or "none"
    outputFile,     \* the file at CsvService's this.outputPath
    sheet1,         \* the rows of range Sheet1!A:D of the spreadsheet
    initialized,    \* GoogleSheetsService's this.initialized
    wm,             \* the writeMovements call in progress, and its locals
    run             \* the command-line run: main and its locals

vars == <<now, dirExists, files, task, settled, cacheLifetime, staleAfter,
          service, outputFile, sheet1, initialized, wm, run>>

\* the state of the cache, and the state of the output services
cacheVars == <<now, dirExists, files, task, settled, cacheLifetime, staleAfter>>
outputVars == <<service, outputFile, sheet1, initialized, wm, run>>

\* ------------------------------------------------------- stored content
NoFile == [kind |-> "absent", timestamp |-> Undefined, value |-> Null]
NotJson == [kind |-> "text", timestamp |-> Undefined, value |-> Null]

\* data = { timestamp: Date.now(), value }
CacheData(ts, v) == [timestamp |-> ts, value |-> v]

\* JSON.stringify(data): the text written to the file
JSONstringify(data) == [kind |-> "json", timestamp |-> data.timestamp, value |-> data.value]

\* JSON.parse(text): throws (ok = FALSE) on text that is not JSON
JSONparse(content) ==
    IF content.kind = "json"
    THEN [ok |-> TRUE, timestamp |-> content.timestamp, value |-> content.value]
    ELSE [ok |-> FALSE, timestamp |-> Undefined, value |-> Null]

NoEntry == [ok |-> FALSE, timestamp |-> Undefined, value |-> Null]

\* const age = Date.now() - timestamp
Age(dateNow, timestamp) == IF timestamp = Undefined THEN NaN ELSE dateNow - timestamp

\* JavaScript a > b: false when a is NaN
GreaterThan(a, b) == a # NaN /\ a > b

\* if (age > this.cacheLifetime)
IsExpiredOrEqual(age, lifetime) == age = lifetime \/ GreaterThan(age, lifetime)
IsExpired(age, lifetime) == GreaterThan(age, lifetime)

\* if (age > this.staleAfter && fetchFresh)
IsStaleWheneverProduced(age, stale, fetchFresh) == fetchFresh
IsStaleOrEqual(age, stale, fetchFresh) == (age = stale \/ GreaterThan(age, stale)) /\ fetchFresh
IsStale(age, stale, fetchFresh) == GreaterThan(age, stale) /\ fetchFresh

\* error.code === 'ENOENT' in the catch blocks of get, set and delete
GetIsMiss(code) == code = "ENOENT"
SetRetriesAlways(code) == TRUE
SetRetriesNever(code) == FALSE
SetRetries(code) == code = "ENOENT"
DeleteIgnoresAll(code) == TRUE
DeleteIgnores(code) == code = "ENOENT"

\* failures other than ENOENT: creating the directory is refused; reading,
\* writing or unlinking a path that exists is refused
MkdirFaults == {"EACCES"}
ReadFaults == {"EACCES"}
WriteFaults == {"EPERM"}
UnlinkFaults == {"EPERM"}

\* ------------------------------------------------------------ task record
Idle ==
    [op |-> "none", pc |-> "idle", key |-> "boards", fetchFresh |-> FALSE,
     value |-> Null, timestamp |-> Undefined, writes |-> 0,
     parsed |-> NoEntry, dateNow |-> Undefined, refresh |-> 0,
     result |-> Null, error |-> "none", caught |-> "none",
     rejection |-> "none", logged |-> {}, fresh |-> Null]

Log(tk, msg) == [tk EXCEPT !.logged = @ \cup {msg}]

Free(tk) == tk.pc \in {"idle", "done"}

\* the slot a new refresh task runs in
FreeSlots == {i \in DOMAIN task \ {Main} : task[i].pc = "idle"}
Slot == CHOOSE i \in FreeSlots : \A j \in FreeSlots : i <= j

\* ------------------------------------------------------------------ get
\* get's outer catch (lines 84-91): every caught error becomes null
GetCatchRethrows(tk, code) ==
    IF GetIsMiss(code)
    THEN [tk EXCEPT !.pc = "done", !.result = Null, !.caught = code]
    ELSE [Log(tk, "Cache read error") EXCEPT !.pc = "done", !.error = code, !.caught = code]
GetCatch(tk, code) ==
    IF GetIsMiss(code)
    THEN [tk EXCEPT !.pc = "done", !.result = Null, !.caught = code]
    ELSE [Log(tk, "Cache read error") EXCEPT !.pc = "done", !.result = Null, !.caught = code]

\* the inner catch around JSON.parse (lines 62-65)
ParseErrorServesEntry(tk) ==
    [Log(tk, "Cache read error") EXCEPT !.pc = "done", !.result = 1]
ParseError(tk) ==
    [Log(tk, "Cache read error") EXCEPT !.pc = "done", !.result = Null, !.caught = "SyntaxError"]

CallGet(k, producer) ==
    /\ Free(task[Main])
    /\ producer => FreeSlots # {}
    /\ task' = [task EXCEPT ![Main] =
                  [Idle EXCEPT !.op = "get", !.pc = "mkdir", !.key = k,
                               !.fetchFresh = producer]]
    /\ UNCHANGED <<now, dirExists, files, settled, cacheLifetime, staleAfter, outputVars>>

\* getCacheFilePath -> ensureCacheDirectory -> fs.mkdir(recursive)  (line 56)
GetMkdir ==
    /\ task[Main].op = "get" /\ task[Main].pc = "mkdir"
    /\ \/ /\ dirExists' = TRUE
          /\ task' = [task EXCEPT ![Main].pc = "readFile"]
       \/ \E code \in MkdirFaults :
            /\ ~dirExists
            /\ task' = [task EXCEPT ![Main] = GetCatch(@, code)]
            /\ UNCHANGED dirExists
    /\ UNCHANGED <<now, files, settled, cacheLifetime, staleAfter, outputVars>>


\* what get does with the parsed entry (lines 67-83), up to its next await
AfterParseCoalesced(tk, p, dateNow) ==
    LET age == Age(dateNow, p.timestamp)
        seen == [tk EXCEPT !.parsed = p, !.dateNow = dateNow]
        inFlight == \E t \in DOMAIN task \ {Main} :
                        task[t].op = "refresh" /\ task[t].key = tk.key
    IN  IF IsExpired(age, cacheLifetime)
        THEN [seen EXCEPT !.pc = "del_mkdir"]
        ELSE [seen EXCEPT !.pc = "done", !.result = p.value,
                          !.refresh = IF IsStale(age, staleAfter, tk.fetchFresh) /\ ~inFlight
                                      THEN Slot ELSE 0]
AfterParseEvictsStale(tk, p, dateNow) ==
    LET age == Age(dateNow, p.timestamp)
        seen == [tk EXCEPT !.parsed = p, !.dateNow = dateNow]
    IN  IF IsExpired(age, cacheLifetime) \/ (GreaterThan(age, staleAfter) /\ ~tk.fetchFresh)
        THEN [seen EXCEPT !.pc = "del_mkdir"]
        ELSE [seen EXCEPT !.pc = "done", !.result = p.value,
                          !.refresh = IF IsStale(age, staleAfter, tk.fetchFresh) THEN Slot ELSE 0]
AfterParseAwaitsRefresh(tk, p, dateNow) ==
    LET age == Age(dateNow, p.timestamp)
        seen == [tk EXCEPT !.parsed = p, !.dateNow = dateNow]
        stale == IsStale(age, staleAfter, tk.fetchFresh)
    IN  IF IsExpired(age, cacheLifetime)
        THEN [seen EXCEPT !.pc = "del_mkdir"]
        ELSE [seen EXCEPT !.pc = IF stale THEN "await_refresh" ELSE "done",
                          !.result = p.value,
                          !.refresh = IF stale THEN Slot ELSE 0]
AfterParse(tk, p, dateNow) ==
    LET age == Age(dateNow, p.timestamp)
        seen == [tk EXCEPT !.parsed = p, !.dateNow = dateNow]
    IN  IF IsExpired(age, cacheLifetime)
        THEN [seen EXCEPT !.pc = "del_mkdir"]
        ELSE [seen EXCEPT !.pc = "done", !.result = p.value,
                          !.refresh = IF IsStale(age, staleAfter, tk.fetchFresh) THEN Slot ELSE 0]

\* this.refreshCache(key, fetchFresh): runs up to `await fetchFresh()`
StartRefresh(k) ==
    [Idle EXCEPT !.op = "refresh", !.pc = "fetch", !.key = k]

\* fs.readFile, JSON.parse and the age checks (lines 57-83)
GetReadFile ==
    /\ task[Main].op = "get" /\ task[Main].pc = "readFile"
    /\ LET tk == task[Main]
           content == files[tk.key]
           p == JSONparse(content)
           next == AfterParse(tk, p, now)
       IN  \/ /\ content = NoFile
              /\ task' = [task EXCEPT ![Main] = GetCatch(tk, "ENOENT")]
           \/ /\ content # NoFile
              /\ \E code \in ReadFaults :
                    task' = [task EXCEPT ![Main] = GetCatch(tk, code)]
           \/ /\ content # NoFile
              /\ ~p.ok
              /\ task' = [task EXCEPT ![Main] = ParseError(tk)]
           \/ /\ content # NoFile
              /\ p.ok
              /\ task' = IF next.refresh # 0
                         THEN [task EXCEPT ![Main] = next, ![Slot] = StartRefresh(tk.key)]
                         ELSE [task EXCEPT ![Main] = next]
    /\ UNCHANGED <<now, dirExists, files, settled, cacheLifetime, staleAfter, outputVars>>

\* --------------------------------------------------------------- delete
\* fs.unlink(filePath) succeeding
KeepFile(fl, k) == fl
RemoveFileTruncates(fl, k) == [fl EXCEPT ![k] = NotJson]
RemoveFile(fl, k) == [fl EXCEPT ![k] = NoFile]

\* delete resolves: to its caller, or into get's `return null` (line 72)
DeleteReturns(tk) ==
    IF tk.op = "get"
    THEN [tk EXCEPT !.pc = "done", !.result = Null]
    ELSE [tk EXCEPT !.pc = "done"]

\* delete rejects: to its caller, or into get's outer catch
DeleteThrows(tk, code) ==
    IF tk.op = "get"
    THEN GetCatch(tk, code)
    ELSE [tk EXCEPT !.pc = "done", !.error = code]

\* delete's catch (lines 143-150)
DeleteCatch(tk, code) ==
    IF DeleteIgnores(code)
    THEN DeleteReturns(tk)
    ELSE DeleteThrows(Log(tk, "Cache delete error"), code)

CallDelete(k) ==
    /\ Free(task[Main])
    /\ task' = [task EXCEPT ![Main] =
                  [Idle EXCEPT !.op = "delete", !.pc = "del_mkdir", !.key = k]]
    /\ UNCHANGED <<now, dirExists, files, settled, cacheLifetime, staleAfter, outputVars>>

\* getCacheFilePath inside delete's try (line 141)
DelMkdir ==
    /\ task[Main].pc = "del_mkdir"
    /\ \/ /\ dirExists' = TRUE
          /\ task' = [task EXCEPT ![Main].pc = "unlink"]
       \/ \E code \in MkdirFaults :
            /\ ~dirExists
            /\ task' = [task EXCEPT ![Main] = DeleteCatch(@, code)]
            /\ UNCHANGED dirExists
    /\ UNCHANGED <<now, files, settled, cacheLifetime, staleAfter, outputVars>>

\* fs.unlink (line 142)
DelUnlink ==
    /\ task[Main].pc = "unlink"
    /\ LET tk == task[Main]
       IN  \/ /\ files[tk.key] = NoFile
              /\ task' = [task EXCEPT ![Main] = DeleteCatch(tk, "ENOENT")]
              /\ UNCHANGED files
           \/ /\ files[tk.key] # NoFile
              /\ \E code \in UnlinkFaults :
                    task' = [task EXCEPT ![Main] = DeleteCatch(tk, code)]
              /\ UNCHANGED files
           \/ /\ files[tk.key] # NoFile
              /\ files' = RemoveFile(files, tk.key)
              /\ task' = [task EXCEPT ![Main] = DeleteReturns(tk)]
    /\ UNCHANGED <<now, dirExists, settled, cacheLifetime, staleAfter, outputVars>>

\* ------------------------------------------------------ set and refresh
\* the .catch handler attached in get (lines 77-80)
BackgroundUncaught(tk, code) ==
    [tk EXCEPT !.pc = "done", !.error = code, !.rejection = "unhandled"]
BackgroundCatch(tk, code) ==
    [Log(tk, "Background refresh failed") EXCEPT
        !.pc = "done", !.error = code, !.rejection = "caught"]

\* refreshCache's catch (lines 102-105): log, rethrow
RefreshCatchStoresNothing(tk, code) ==
    [Log(tk, "Cache refresh error") EXCEPT !.value = Null, !.timestamp = 0, !.pc = "set_mkdir"]
RefreshCatch(tk, code) == BackgroundCatch(Log(tk, "Cache refresh error"), code)

\* set has settled: its locals (data) are gone
Settled(tk) == [tk EXCEPT !.pc = "done", !.value = Null, !.timestamp = Undefined]

\* set resolves: to its caller, or refreshCache resolves
SetReturns(tk) ==
    IF tk.op = "refresh"
    THEN [Settled(tk) EXCEPT !.rejection = "fulfilled"]
    ELSE Settled(tk)

\* set rejects: to its caller, or into refreshCache's catch
SetThrows(tk, code) ==
    IF tk.op = "refresh"
    THEN RefreshCatch(tk, code)
    ELSE [Settled(tk) EXCEPT !.error = code]

\* set's catch around the first write (lines 123-132)
SetCatch(tk, code) ==
    LET logged == Log(tk, "Cache write error")
    IN  IF SetRetries(code)
        THEN [logged EXCEPT !.pc = "retry_mkdir"]
        ELSE SetThrows(logged, code)

\* fs.writeFile(filePath, text) succeeding
WriteFileFirstWins(fl, k, text) == IF fl[k] = NoFile THEN [fl EXCEPT ![k] = text] ELSE fl
WriteFile(fl, k, text) == [fl EXCEPT ![k] = text]

\* set's entry: data = {timestamp: Date.now(), value} (lines 114-117)
StaleData(tk, v) == [tk EXCEPT !.value = v, !.timestamp = 0, !.pc = "set_mkdir"]
BeginSet(tk, v) == [tk EXCEPT !.value = v, !.timestamp = now, !.pc = "set_mkdir"]

CallSet(k, v) ==
    /\ Free(task[Main])
    /\ task' = [task EXCEPT ![Main] =
                  BeginSet([Idle EXCEPT !.op = "set", !.key = k], v)]
    /\ UNCHANGED <<now, dirExists, files, settled, cacheLifetime, staleAfter, outputVars>>

\* a refresh task that has finished settles its promise and frees its slot
RefreshMessages == {"Cache refresh error", "Background refresh failed"}
NotSettled == [rejection |-> "none", logged |-> {}]
Outcome(tk) == [rejection |-> tk.rejection, logged |-> tk.logged \cap RefreshMessages]

Continue(t, tk) ==
    IF tk.op = "refresh" /\ tk.pc = "done"
    THEN /\ task' = [task EXCEPT ![t] = Idle]
         /\ settled' = Outcome(tk)
    ELSE /\ task' = [task EXCEPT ![t] = tk]
         /\ UNCHANGED settled

\* await fetchFresh() settles (line 100); on success set(key, freshData) begins
RefreshFetch(t) ==
    /\ task[t].op = "refresh" /\ task[t].pc = "fetch"
    /\ \/ \E v \in Values : Continue(t, BeginSet(task[t], v))
       \/ Continue(t, RefreshCatch(task[t], "FetchError"))
    /\ UNCHANGED <<now, dirExists, files, cacheLifetime, staleAfter, outputVars>>

\* getCacheFilePath before set's try (line 119)
SetMkdir(t) ==
    /\ task[t].pc = "set_mkdir"
    /\ \/ /\ dirExists' = TRUE
          /\ Continue(t, [task[t] EXCEPT !.pc = "writeFile"])
       \/ \E code \in MkdirFaults :
            /\ ~dirExists
            /\ Continue(t, SetThrows(task[t], code))
            /\ UNCHANGED dirExists
    /\ UNCHANGED <<now, files, cacheLifetime, staleAfter, outputVars>>

\* the first fs.writeFile (line 122)
SetWriteFile(t) ==
    /\ task[t].pc = "writeFile"
    /\ LET tk == [task[t] EXCEPT !.writes = @ + 1]
       IN  \/ /\ ~dirExists
              /\ Continue(t, SetCatch(tk, "ENOENT"))
              /\ UNCHANGED files
           \/ /\ dirExists
              /\ \E code \in WriteFaults : Continue(t, SetCatch(tk, code))
              /\ UNCHANGED files
           \/ /\ dirExists
              /\ files' = WriteFile(files, tk.key, JSONstringify(CacheData(tk.timestamp, tk.value)))
              /\ Continue(t, SetReturns(tk))
    /\ UNCHANGED <<now, dirExists, cacheLifetime, staleAfter, outputVars>>

\* ensureCacheDirectory in the ENOENT branch (line 126)
SetRetryMkdir(t) ==
    /\ task[t].pc = "retry_mkdir"
    /\ \/ /\ dirExists' = TRUE
          /\ Continue(t, [task[t] EXCEPT !.pc = "retry_write"])
       \/ \E code \in MkdirFaults :
            /\ ~dirExists
            /\ Continue(t, SetThrows(task[t], code))
            /\ UNCHANGED dirExists
    /\ UNCHANGED <<now, files, cacheLifetime, staleAfter, outputVars>>

\* the retried fs.writeFile (line 128): its failure is not caught
SetRetryWrite(t) ==
    /\ task[t].pc = "retry_write"
    /\ LET tk == [task[t] EXCEPT !.writes = @ + 1]
       IN  \/ /\ ~dirExists
              /\ Continue(t, SetThrows(tk, "ENOENT"))
              /\ UNCHANGED files
           \/ /\ dirExists
              /\ \E code \in WriteFaults : Continue(t, SetThrows(tk, code))
              /\ UNCHANGED files
           \/ /\ dirExists
              /\ files' = WriteFile(files, tk.key, JSONstringify(CacheData(tk.timestamp, tk.value)))
              /\ Continue(t, SetReturns(tk))
    /\ UNCHANGED <<now, dirExists, cacheLifetime, staleAfter, outputVars>>

\* ---------------------------------------------------------- environment
\* Date.now() advances
Tick ==
    /\ now < MaxTime
    /\ now' = now + 1
    /\ UNCHANGED <<dirExists, files, task, settled, cacheLifetime, staleAfter, outputVars>>

\* the cache directory is removed from outside the process
RemoveCacheDirectory ==
    /\ dirExists
    /\ dirExists' = FALSE
    /\ files' = [k \in DOMAIN files |-> NoFile]
    /\ UNCHANGED <<now, task, settled, cacheLifetime, staleAfter, outputVars>>

\* ------------------------------------------------------- output services
\* no output service is in use
NotCalled ==
    [pc |-> "idle", spreadsheetId |-> "none", movements |-> <<>>,
     rerun |-> FALSE, existing |-> <<>>,
     newMovements |-> <<>>, allMovements |-> <<>>, append |-> FALSE,
     added |-> 0, writes |-> 0,
     existingData |-> <<>>, updateMovements |-> <<>>,
     error |-> "none", logged |-> {}]

\* main is not running
NotRunning ==
    [pc |-> "none", caller |-> "none", args |-> <<>>, forceFresh |-> FALSE,
     boardId |-> "", spreadsheetId |-> "", resource |-> "none",
     cached |-> Null, requests |-> 0, data |-> Null, result |-> Null,
     boards |-> Null, actions |-> Null, exitCode |-> Undefined,
     cause |-> "none", error |-> "none", logged |-> {}]

NoOutput ==
    /\ service = "none"
    /\ outputFile = [exists |-> FALSE, lines |-> <<>>]
    /\ sheet1 = <<>>
    /\ initialized = FALSE
    /\ wm = NotCalled
    /\ run = NotRunning

\* ---------------------------------------------------------------- system
\* what an earlier run can have left in a cache file
InitContents ==
    {NoFile, NotJson, JSONstringify(CacheData(0, 1)), JSONstringify(CacheData(Undefined, 1))}

\* new CacheService(options) over the storage an earlier run left
Constructed(options) ==
    /\ now = 0
    /\ files \in [Keys -> InitContents]
    /\ dirExists \in BOOLEAN
    /\ (\E k \in Keys : files[k] # NoFile) => dirExists
    /\ cacheLifetime = options.lifetime
    /\ staleAfter = options.staleAfter
    /\ task = [t \in Tasks |-> Idle]
    /\ settled = NotSettled
    /\ NoOutput

Init == Constructed(DefaultOptions)

RefreshStep(t) ==
    \/ SetMkdir(t)
    \/ SetWriteFile(t)
    \/ SetRetryMkdir(t)
    \/ SetRetryWrite(t)

Next ==
    \/ \E k \in Keys, producer \in BOOLEAN : CallGet(k, producer)
    \/ GetMkdir
    \/ GetReadFile
    \/ \E k \in Keys : CallDelete(k)
    \/ DelMkdir
    \/ DelUnlink
    \/ \E k \in Keys, v \in Values : CallSet(k, v)
    \/ \E t \in Background : RefreshFetch(t)
    \/ \E t \in Tasks : SetMkdir(t)
    \/ \E t \in Tasks : SetWriteFile(t)
    \/ \E t \in Tasks : SetRetryMkdir(t)
    \/ \E t \in Tasks : SetRetryWrite(t)
    \/ Tick
    \/ RemoveCacheDirectory

Spec == Init /\ [][Next]_vars

\* a caller that only reads: the only writers are the refreshes its gets start
ReaderNext ==
    \/ \E k \in Keys, producer \in BOOLEAN : CallGet(k, producer)
    \/ GetMkdir
    \/ GetReadFile
    \/ DelMkdir
    \/ DelUnlink
    \/ \E t \in Background : RefreshFetch(t)
    \/ \E t \in Background : RefreshStep(t)
    \/ Tick
    \/ RemoveCacheDirectory

\* the event loop runs every continuation of a refresh whose producer has
\* settled; nothing makes the producer itself settle
LiveSpec ==
    Init /\ [][ReaderNext]_vars /\ \A t \in Background : WF_vars(RefreshStep(t))

\* ================================================================ claims
\* the caller's task, and whether its last call was a get that has returned
Caller == task[Main]
GetReturned == Caller.op = "get" /\ Caller.pc = "done"

\* get read an entry that carries a storedAt; its age at the check of line 68
ReadEntry == Caller.parsed.ok /\ Caller.parsed.timestamp # Undefined
AgeRead == Caller.dateNow - Caller.parsed.timestamp

\* C1: freshness partition.  A get that read an entry of age a returns the
\* stored value when a <= lifetime (a = staleAfter and a = lifetime included)
\* and null when a > lifetime; it starts the producer if and only if one was
\* supplied and staleAfter < a <= lifetime; no get returns a value older than
\* lifetime.
C1_FreshnessPartition ==
    GetReturned =>
        /\ ReadEntry /\ AgeRead <= cacheLifetime =>
              Caller.result = Caller.parsed.value /\ Caller.error = "none"
        /\ ReadEntry /\ AgeRead > cacheLifetime => Caller.result = Null
        /\ Caller.refresh # 0 <=>
              /\ ReadEntry
              /\ Caller.fetchFresh
              /\ staleAfter < AgeRead
              /\ AgeRead <= cacheLifetime

\* an entry exactly lifetime old was served, and its refresh started
C1_Witness ==
    /\ GetReturned /\ ReadEntry
    /\ AgeRead = cacheLifetime
    /\ Caller.result = Caller.parsed.value
    /\ Caller.refresh # 0

\* C2 as stated: whenever get returns null because the entry read was older
\* than lifetime, storage holds no entry for the key, whatever the internal
\* delete did.
C2_EvictedForEveryDeleteOutcome ==
    GetReturned /\ ReadEntry /\ AgeRead > cacheLifetime =>
        files[Caller.key] = NoFile

\* C2 amended: when get found the entry expired and its internal delete did
\* not fail (the unlink succeeded, or the file was already gone), the key has
\* no entry in storage at the moment get returns.
C2_EvictedWhenDeleteSucceeds ==
    [][\A k \in Keys :
          /\ Caller.op = "get" /\ Caller.key = k
          /\ Caller.pc \in {"del_mkdir", "unlink"}
          /\ task'[Main].pc = "done"
          /\ task'[Main].caught = "none"
          => files'[k] = NoFile]_vars

\* an expired entry was evicted by the get that read it
C2_Witness ==
    /\ GetReturned /\ ReadEntry
    /\ AgeRead > cacheLifetime
    /\ Caller.caught = "none"
    /\ Caller.result = Null
    /\ files[Caller.key] = NoFile

\* a refresh task finishes in this step
Finishes(t) == task[t].op = "refresh" /\ task'[t].pc = "idle"

\* C3: a failing background refresh never reaches the caller.  A get that
\* started a refresh has returned the stale value without raising; when the
\* refresh fails (producer or set), the rejection is caught by the handler
\* get attached, both messages are logged, and the caller's call is untouched.
C3_RefreshFailureIsolated ==
    [][/\ task'[Main].op = "get" /\ task'[Main].pc = "done" /\ task'[Main].refresh # 0 =>
            /\ task'[Main].result = task'[Main].parsed.value
            /\ task'[Main].error = "none"
       /\ \A t \in Background :
            Finishes(t) /\ settled'.rejection # "fulfilled" =>
                /\ settled'.rejection = "caught"
                /\ RefreshMessages \subseteq settled'.logged
                /\ task'[Main] = task[Main]]_vars

\* a refresh failed after get had returned the stale value
C3_Witness ==
    /\ settled.rejection = "caught"
    /\ GetReturned
    /\ Caller.refresh # 0
    /\ Caller.result = Caller.parsed.value
    /\ Caller.result # Null

\* the producer of refresh task t has resolved and its set is under way
Writing(t) == task[t].op = "refresh" /\ task[t].pc # "fetch"

\* C4: stale hit with a succeeding producer.  The get returned the old value;
\* once the producer has resolved the refresh runs to its end, and in the step
\* in which its write succeeds the stored entry is the producer's value with a
\* storedAt not earlier than the clock reading of the get that started it.
C4_RefreshOverwrites ==
    /\ [][\A t \in Background :
            Finishes(t) /\ settled'.rejection = "fulfilled" =>
                /\ files'[task[t].key] =
                      [kind |-> "json", timestamp |-> task[t].timestamp, value |-> task[t].value]
                /\ task[t].value \in Values
                /\ GetReturned /\ Caller.refresh = t =>
                      /\ task[t].timestamp >= Caller.dateNow
                      /\ task[t].key = Caller.key
                      /\ Caller.result = Caller.parsed.value]_vars
    /\ \A t \in Background : Writing(t) ~> ~Writing(t)

\* the refresh a get started has replaced the stale entry the get returned
C4_Witness ==
    /\ GetReturned
    /\ Caller.refresh # 0
    /\ task[Caller.refresh].pc = "idle"
    /\ settled.rejection = "fulfilled"
    /\ files[Caller.key].kind = "json"
    /\ files[Caller.key].value # Caller.result
    /\ files[Caller.key].timestamp >= Caller.dateNow
    /\ Caller.result = Caller.parsed.value

\* C5: get never raises.  Whatever fails inside get (creating the directory,
\* reading, parsing, the delete of an expired entry), get returns null.
C5_GetNeverRaises ==
    GetReturned =>
        /\ Caller.error = "none"
        /\ Caller.caught # "none" => Caller.result = Null

\* the delete of an expired entry failed and get returned null
C5_Witness ==
    /\ GetReturned
    /\ Caller.caught \in UnlinkFaults
    /\ Caller.error = "none"
    /\ Caller.result = Null

\* the caller's task takes a step
CallerSteps == task'[Main] # task[Main]

\* get is about to read content that does not deserialize
ReadsMalformed ==
    /\ Caller.op = "get" /\ Caller.pc = "readFile"
    /\ files[Caller.key].kind = "text"

\* C6: malformed stored content is a miss.  The get that reads it returns
\* null without raising, starts no refresh and leaves storage as it was.
C6_MalformedIsMiss ==
    [][ReadsMalformed /\ CallerSteps =>
          /\ task'[Main].pc = "done"
          /\ task'[Main].result = Null
          /\ task'[Main].error = "none"
          /\ task'[Main].refresh = 0
          /\ \A t \in Background : task'[t] = task[t]
          /\ UNCHANGED <<files, dirExists>>]_vars

\* get returned null for content that failed to parse, and the content is kept
C6_Witness ==
    /\ GetReturned
    /\ Caller.caught = "SyntaxError"
    /\ Caller.fetchFresh
    /\ Caller.result = Null
    /\ files[Caller.key] = NotJson

\* the entry a set call of the caller is writing
CallerData == [kind |-> "json", timestamp |-> Caller.timestamp, value |-> Caller.value]

\* the caller's set has settled in this step, after `n` write attempts:
\* fulfilled with its entry stored, or rejected with `codes` and storage kept
SetEnds(n, codes) ==
    /\ task'[Main].pc = "done"
    /\ task'[Main].writes = n
    /\ \/ /\ task'[Main].error = "none"
          /\ files' = [files EXCEPT ![Caller.key] = CallerData]
       \/ /\ task'[Main].error \in codes
          /\ UNCHANGED files

C8_OtherWriteErrorPropagates ==
    [][Caller.op = "set" /\ Caller.pc = "writeFile" /\ dirExists /\ CallerSteps =>
          SetEnds(1, WriteFaults)]_vars

\* a set was rejected with EPERM after one attempt; the older entry is kept
C8_Witness ==
    /\ Caller.op = "set" /\ Caller.pc = "done"
    /\ Caller.error \in WriteFaults
    /\ Caller.writes = 1
    /\ files[Caller.key] = [kind |-> "json", timestamp |-> 0, value |-> 1]

\* C9: delete is idempotent.  It removes the entry if present; on an absent
\* entry it succeeds and changes nothing, so a second delete is a no-op; a
\* removal refused for another reason rejects with that error and the entry
\* remains.
C9_DeleteIdempotent ==
    [][Caller.op = "delete" /\ CallerSteps =>
          /\ Caller.pc = "del_mkdir" =>
                /\ UNCHANGED files
                /\ dirExists => UNCHANGED dirExists /\ task'[Main].pc = "unlink"
                /\ task'[Main].pc = "done" => task'[Main].error \in MkdirFaults
          /\ Caller.pc = "unlink" =>
                /\ task'[Main].pc = "done"
                /\ UNCHANGED dirExists
                /\ files[Caller.key] = NoFile =>
                      task'[Main].error = "none" /\ UNCHANGED files
                /\ files[Caller.key] # NoFile =>
                      \/ /\ task'[Main].error = "none"
                         /\ files' = [files EXCEPT ![Caller.key] = NoFile]
                      \/ /\ task'[Main].error \in UnlinkFaults
                         /\ UNCHANGED files]_vars

\* a delete of an entry that was not there succeeded
C9_Witness ==
    /\ Caller.op = "delete" /\ Caller.pc = "done"
    /\ Caller.error = "none"
    /\ Caller.logged = {}
    /\ files[Caller.key] = NoFile

\* a delete was refused: it rejected and the entry is still there
C9_RefusedWitness ==
    /\ Caller.op = "delete" /\ Caller.pc = "done"
    /\ Caller.error \in UnlinkFaults
    /\ files[Caller.key] # NoFile

\* C10 as stated: over every interleaving of writes to a key (the caller's
\* sets and the sets of background refreshes), each write leaves a storedAt
\* that is >= the storedAt of the entry it replaced.
C10_StoredAtNeverDecreases ==
    [][\A k \in Keys :
          /\ files[k].kind = "json" /\ files[k].timestamp # Undefined
          /\ files'[k].kind = "json" /\ files'[k].timestamp # Undefined
          => files'[k].timestamp >= files[k].timestamp]_vars

\* ------------------------------------------- misconfigured options (C11)
\* new CacheService({lifetime, staleAfter}) with staleAfter > lifetime: the
\* constructor (lines 18-28) stores both numbers unchecked.  The caller's
\* calls are those of Next; no refresh task exists to be continued unless a
\* get starts one (GetReadFile), which C11 shows never happens.
MisconfiguredInit == Constructed(MisconfiguredOptions)

MisconfiguredNext ==
    \/ \E k \in Keys, producer \in BOOLEAN : CallGet(k, producer)
    \/ GetMkdir
    \/ GetReadFile
    \/ \E k \in Keys : CallDelete(k)
    \/ DelMkdir
    \/ DelUnlink
    \/ \E k \in Keys, v \in Values : CallSet(k, v)
    \/ SetMkdir(Main)
    \/ SetWriteFile(Main)
    \/ SetRetryMkdir(Main)
    \/ SetRetryWrite(Main)
    \/ Tick
    \/ RemoveCacheDirectory

MisconfiguredSpec == MisconfiguredInit /\ [][MisconfiguredNext]_vars

\* with staleAfter > lifetime: get never raises, serves an entry only when
\* its age is <= lifetime, answers null for every older one, and never
\* starts the producer
NoStaleService ==
    /\ staleAfter > cacheLifetime
    /\ \A t \in Background : task[t] = Idle
    /\ settled = NotSettled
    /\ GetReturned =>
          /\ Caller.error = "none"
          /\ Caller.refresh = 0
          /\ ReadEntry /\ AgeRead <= cacheLifetime => Caller.result = Caller.parsed.value
          /\ ReadEntry /\ AgeRead > cacheLifetime => Caller.result = Null

\* C11 as stated: under staleAfter > lifetime nothing errors, the producer is
\* never invoked, and every entry older than lifetime is reported absent and
\* is evicted (storage holds no entry for the key once get has returned).
C11_StricterBoundAlwaysEvicts ==
    /\ NoStaleService
    /\ GetReturned /\ ReadEntry /\ AgeRead > cacheLifetime =>
          files[Caller.key] = NoFile

\* C11 amended: under staleAfter > lifetime nothing errors, the producer is
\* never invoked, every entry older than lifetime is reported absent (also
\* when its age is <= staleAfter), and it is evicted whenever the delete get
\* performs does not fail.
C11_StricterBoundWins ==
    /\ NoStaleService
    /\ GetReturned /\ ReadEntry /\ AgeRead > cacheLifetime /\ Caller.caught = "none" =>
          files[Caller.key] = NoFile

\* an entry older than lifetime but not older than staleAfter was read by a
\* get that had a producer: it was evicted and reported absent
C11_Witness ==
    /\ GetReturned /\ ReadEntry
    /\ Caller.fetchFresh
    /\ AgeRead > cacheLifetime
    /\ AgeRead <= staleAfter
    /\ Caller.result = Null
    /\ Caller.caught = "none"
    /\ files[Caller.key] = NoFile
    /\ \A t \in Background : task[t] = Idle

\* ================================================= movements and the merge
\* (src/src/services/csvService.js, src/src/services/googleSheetsService.js)
\*
\* A string is the sequence of its pieces: "A-To" is <<"A", "-", "To">>.  The
\* pieces "-" and " " are the hyphen and the blank; every other piece stands
\* for text that contains neither.  "12:00" and "11:00" abbreviate the ISO
\* timestamps of 2024-03-14 at those hours.

MaxBatch == 2       \* movements in one call of writeMovements
MaxRows == 3        \* records an output holds (the guard of a call keeps to it)

Movement(name, old, new, ts) ==
    [cardName |-> name, oldLocation |-> old, newLocation |-> new, timestamp |-> ts]

\* the movements a batch is drawn from: two plain ones; one whose fields,
\* joined by hyphens, spell the same text as those of RecordA; one whose card
\* name starts with a blank; one whose timestamp is not a date
RecordA == Movement(<<"A">>, <<"To", "-", "Do">>, <<"Done">>, <<"12:00">>)
RecordB == Movement(<<"B">>, <<"L3">>, <<"L4">>, <<"11:00">>)
RecordHyphen == Movement(<<"A", "-", "To">>, <<"Do">>, <<"Done">>, <<"12:00">>)
RecordPadded == Movement(<<" ", "A">>, <<"To", "-", "Do">>, <<"Done">>, <<"12:00">>)
RecordUndated == Movement(<<"C">>, <<"L3">>, <<"L4">>, <<"soon">>)

Movements == {RecordA, RecordB, RecordHyphen, RecordPadded, RecordUndated}

SeqsUpTo(S, n) == UNION {[1..k -> S] : k \in 0..n}

\* an argument that is not an array (writeMovements called without one),
\* a value apart from every batch
NotAnArray == <<Movement(<<"undefined">>, <<>>, <<>>, <<>>)>>
IsArray(movements) == movements # NotAnArray

Batches == SeqsUpTo(Movements, MaxBatch) \cup {NotAnArray}

\* `${m.cardName}-${m.oldLocation}-${m.newLocation}-${m.timestamp}`
MovementKey(m) ==
    m.cardName \o <<"-">> \o m.oldLocation \o <<"-">> \o m.newLocation
               \o <<"-">> \o m.timestamp

\* new Set(existingMovements.map(...))
ExistingKeys(existingMovements) ==
    {MovementKey(existingMovements[i]) : i \in 1..Len(existingMovements)}

RECURSIVE Filter(_, _)
Filter(movements, keys) ==
    IF movements = <<>> THEN <<>>
    ELSE (IF MovementKey(Head(movements)) \in keys THEN <<>> ELSE <<Head(movements)>>)
         \o Filter(Tail(movements), keys)

\* movements.filter(movement => !existingKeys.has(...))
NewMovements(existingMovements, movements) ==
    Filter(movements, ExistingKeys(existingMovements))

\* new Date(timestamp): the time value, NaN for text that is not a date
DateParse(timestamp) ==
    IF timestamp = <<"11:00">> THEN 11
    ELSE IF timestamp = <<"12:00">> THEN 12
    ELSE NaN

\* (a, b) => new Date(a.timestamp) - new Date(b.timestamp), as the sort reads
\* it: negative when a goes first; NaN counts as +0
ComparesBefore(a, b) ==
    /\ DateParse(a.timestamp) # NaN
    /\ DateParse(b.timestamp) # NaN
    /\ DateParse(a.timestamp) < DateParse(b.timestamp)

\* the comparator orders the elements consistently: a record whose date is
\* NaN compares equal to everything, which is consistent only if all the
\* others compare equal to each other as well
ConsistentComparator(s) ==
    (\E i \in 1..Len(s) : DateParse(s[i].timestamp) = NaN) =>
        \A i, j \in 1..Len(s) : ~ComparesBefore(s[i], s[j])

\* insertion of x after the last element it does not come before
RECURSIVE Insert(_, _)
Insert(sorted, x) ==
    IF sorted = <<>> THEN <<x>>
    ELSE IF ComparesBefore(x, sorted[Len(sorted)])
         THEN Insert(SubSeq(sorted, 1, Len(sorted) - 1), x) \o <<sorted[Len(sorted)]>>
         ELSE sorted \o <<x>>

RECURSIVE StableSort(_)
StableSort(s) ==
    IF s = <<>> THEN <<>>
    ELSE Insert(StableSort(SubSeq(s, 1, Len(s) - 1)), s[Len(s)])

Orders(s) ==
    {[i \in 1..Len(s) |-> s[p[i]]] :
        p \in {q \in [1..Len(s) -> 1..Len(s)] : \A i, j \in 1..Len(s) : q[i] = q[j] => i = j}}

\* [...].sort(comparator): the stable ascending order; with an inconsistent
\* comparator the order is implementation-defined
Sort(s) == IF ConsistentComparator(s) THEN {StableSort(s)} ELSE Orders(s)

\* --------------------------------------------------------- CSV conversions
\* the header titles of createObjectCsvWriter (lines 91-96)
Header ==
    <<<<"Card Name">>, <<"Old Board/List Name">>, <<"New Board/List Name">>,
      <<"Timestamp of Movement">>>>

\* csv-writer: one line per record, the fields in the order of the header ids
CsvLine(m) == <<m.cardName, m.oldLocation, m.newLocation, m.timestamp>>
CsvLines(records) == [i \in 1..Len(records) |-> CsvLine(records[i])]

\* csv-parse with trim: true drops the blanks around a field
RECURSIVE TrimStart(_)
TrimStart(field) ==
    IF field # <<>> /\ Head(field) = " " THEN TrimStart(Tail(field)) ELSE field
RECURSIVE TrimEnd(_)
TrimEnd(field) ==
    IF field # <<>> /\ field[Len(field)] = " "
    THEN TrimEnd(SubSeq(field, 1, Len(field) - 1))
    ELSE field
Trim(field) == TrimStart(TrimEnd(field))

\* csv-parse with columns: true, then record['Card Name'] ... (lines 113-128)
Column(line, columns, title) ==
    Trim(line[CHOOSE j \in 1..Len(columns) : Trim(columns[j]) = title])
CsvParse(lines) ==
    IF lines = <<>> THEN <<>>
    ELSE [i \in 1..(Len(lines) - 1) |->
            Movement(Column(lines[i + 1], lines[1], Header[1]),
                     Column(lines[i + 1], lines[1], Header[2]),
                     Column(lines[i + 1], lines[1], Header[3]),
                     Column(lines[i + 1], lines[1], Header[4]))]

\* csvWriter.writeRecords(records): a writer made with append: false replaces
\* the file by the header and the records; one made with append: true adds
\* the records to what is there
NoCsvFile == [exists |-> FALSE, lines |-> <<>>]
WriteRecords(file, records, append) ==
    IF append
    THEN [exists |-> TRUE, lines |-> file.lines \o CsvLines(records)]
    ELSE [exists |-> TRUE, lines |-> <<Header>> \o CsvLines(records)]

\* ------------------------------------------------------ sheet conversions
\* the rows written to the sheet (lines 113-121)
SheetValues(allMovements) == <<Header>> \o CsvLines(allMovements)

\* spreadsheets.values.get leaves out the empty cells at the end of a row
RECURSIVE DropEmptyTail(_)
DropEmptyTail(row) ==
    IF row # <<>> /\ row[Len(row)] = <<>>
    THEN DropEmptyTail(SubSeq(row, 1, Len(row) - 1))
    ELSE row
ValuesGet(rows) == [i \in 1..Len(rows) |-> DropEmptyTail(rows[i])]

\* the response of spreadsheets.values.get: for a range that holds nothing
\* it has no values field (the API), or an empty one (the tests' mock)
NoValuesField == <<<<<<"undefined">>>>, <<<<"undefined">>>>>>
Responses(rows) == IF rows = <<>> THEN {NoValuesField, <<>>} ELSE {ValuesGet(rows)}

\* response.data.values || []
ValuesOrEmpty(values) == IF values = NoValuesField THEN <<>> ELSE values

\* row[i] || ''
Cell(row, i) == IF i <= Len(row) THEN row[i] ELSE <<>>

\* rows.map(...) without the slice: the header row taken for a record
SheetMovementsWithHeader(rows) ==
    IF Len(rows) < 1 THEN <<>>
    ELSE [i \in 1..Len(rows) |->
            Movement(Cell(rows[i], 1), Cell(rows[i], 2),
                     Cell(rows[i], 3), Cell(rows[i], 4))]

\* rows.slice(1).map(...) of readExistingMovements (lines 60-68)
SheetMovements(rows) ==
    IF Len(rows) <= 1 THEN <<>>
    ELSE [i \in 1..(Len(rows) - 1) |->
            Movement(Cell(rows[i + 1], 1), Cell(rows[i + 1], 2),
                     Cell(rows[i + 1], 3), Cell(rows[i + 1], 4))]

\* --------------------------------------------------- writeMovements calls
\* failures of the calls the services make
CsvReadFaults == {"EACCES"}
CsvWriteFaults == {"EACCES"}
ApiFaults == {"API Error"}
SpreadsheetIds == {"", "sheet-id"}

\* if (newMovements.length > 0) / if (newMovements.length === 0)
HasNew(newMovements) == Len(newMovements) > 0

WmLog(c, msg) == [c EXCEPT !.logged = @ \cup {msg}]

\* the call has settled: its locals are gone; what remains is what the caller
\* and the console saw
Returned(c) ==
    [c EXCEPT !.pc = "done", !.existing = <<>>, !.newMovements = <<>>,
              !.allMovements = <<>>, !.append = FALSE,
              !.existingData = <<>>, !.updateMovements = <<>>]

\* the catch of writeMovements: log, throw
WmThrows(c, msg, error) == [Returned(WmLog(c, msg)) EXCEPT !.error = error]

\* the records the output holds, as a reader of the output finds them
Stored ==
    IF service = "csv" THEN CsvParse(outputFile.lines) ELSE SheetMovements(ValuesGet(sheet1))

\* a call begins; its locals are fresh
Called(movements) ==
    [NotCalled EXCEPT
        !.movements = movements,
        !.rerun = wm.pc = "done" /\ wm.error = "none" /\ wm.movements = movements]

\* the number of rows in the output, its header apart
Rows ==
    LET lines == IF service = "csv" THEN outputFile.lines ELSE sheet1
    IN  IF lines = <<>> THEN 0 ELSE Len(lines) - 1

WithinBounds(movements) ==
    IsArray(movements) => Rows + Len(movements) <= MaxRows

\* existingMovements is known: filter, and sort if anything is new
\* (csvService.js lines 149-173, googleSheetsService.js lines 93-111)
Merged(c, existingMovements, none, next) ==
    LET new == NewMovements(existingMovements, c.movements)
        read == [c EXCEPT !.existing = existingMovements, !.newMovements = new]
    IN  IF HasNew(new)
        THEN \E all \in Sort(existingMovements \o new) :
                wm' = [read EXCEPT !.allMovements = all, !.pc = next]
        ELSE wm' = [Returned(WmLog(read, none)) EXCEPT !.added = 0]

\* ---- CsvService.writeMovements (lines 139-178)
CsvCall(movements) ==
    /\ service = "csv"
    /\ wm.pc \in {"idle", "done"}
    /\ wm' = [Called(movements) EXCEPT !.pc = "access"]
    /\ UNCHANGED <<cacheVars, run, service, outputFile, sheet1, initialized>>

\* this.initializeCsvWriter(append)
InitializeCsvWriterToAppend(c, append) == [c EXCEPT !.append = TRUE]
InitializeCsvWriter(c, append) == [c EXCEPT !.append = append]

\* fs.access, then this.initializeCsvWriter(fileExists) (lines 141-146)
CsvAccess ==
    /\ service = "csv" /\ wm.pc = "access"
    /\ wm' = [InitializeCsvWriter(wm, outputFile.exists) EXCEPT !.pc = "read"]
    /\ UNCHANGED <<cacheVars, run, service, outputFile, sheet1, initialized>>

\* readExistingMovements (lines 101-137), then the filter and the sort
CsvRead ==
    /\ service = "csv" /\ wm.pc = "read"
    /\ \E c \in {wm} \cup {WmLog(wm, "Error reading existing CSV") : code \in CsvReadFaults} :
          LET existingMovements ==
                  IF c = wm /\ outputFile.exists THEN CsvParse(outputFile.lines) ELSE <<>>
          IN  /\ c # wm => outputFile.exists
              /\ IF IsArray(c.movements)
                 THEN Merged(c, existingMovements, "No new movements to write", "write")
                 ELSE wm' = WmThrows([c EXCEPT !.existing = existingMovements],
                                     "Error writing CSV", "TypeError")
    /\ UNCHANGED <<cacheVars, run, service, outputFile, sheet1, initialized>>

\* this.initializeCsvWriter(false); this.csvWriter.writeRecords(allMovements)
\* (lines 168-170)
CsvWrite ==
    /\ service = "csv" /\ wm.pc = "write"
    /\ LET c == [InitializeCsvWriter(wm, FALSE) EXCEPT !.writes = @ + 1]
       IN  \/ /\ outputFile' = WriteRecords(outputFile, c.allMovements, c.append)
              /\ wm' = [Returned(WmLog(c, "CSV file updated")) EXCEPT
                           !.added = Len(c.newMovements)]
           \/ \E code \in CsvWriteFaults :
                /\ wm' = WmThrows(c, "Error writing CSV", code)
                /\ UNCHANGED outputFile
    /\ UNCHANGED <<cacheVars, run, service, sheet1, initialized>>

\* ---- GoogleSheetsService.writeMovements (lines 80-130)
\* the checks of its arguments (lines 81-87): the error thrown, if any
ValidatesIdOnly(spreadsheetId, movements) ==
    IF spreadsheetId = "" THEN "Spreadsheet ID is required" ELSE "none"
Validates(spreadsheetId, movements) ==
    IF spreadsheetId = "" THEN "Spreadsheet ID is required"
    ELSE IF ~IsArray(movements) THEN "Movements must be an array"
    ELSE "none"

SheetsCall(spreadsheetId, movements) ==
    /\ service = "sheets"
    /\ wm.pc \in {"idle", "done"}
    /\ LET error == Validates(spreadsheetId, movements)
       IN  wm' = IF error # "none"
                 THEN [NotCalled EXCEPT
                          !.pc = "done", !.error = error,
                          !.spreadsheetId = spreadsheetId,
                          !.movements = IF IsArray(movements) THEN <<>> ELSE movements]
                 ELSE [Called(movements) EXCEPT
                          !.pc = "initialize", !.spreadsheetId = spreadsheetId]
    /\ UNCHANGED <<cacheVars, run, service, outputFile, sheet1, initialized>>

\* await this.initialize() (line 89, lines 28-44)
SheetsInitialize ==
    /\ service = "sheets" /\ wm.pc = "initialize"
    /\ \/ /\ initialized' = TRUE
          /\ wm' = [wm EXCEPT !.pc = "get"]
       \/ /\ ~initialized
          /\ wm' = WmThrows(wm, "Failed to initialize Google Sheets",
                            "Google Sheets initialization failed")
          /\ UNCHANGED initialized
    /\ UNCHANGED <<cacheVars, run, service, outputFile, sheet1>>

\* readExistingMovements (lines 51-73), then the filter and the sort
SheetsRead ==
    /\ service = "sheets" /\ wm.pc = "get"
    /\ \/ \E values \in Responses(sheet1) :
            Merged(wm, SheetMovements(ValuesOrEmpty(values)),
                   "No new movements to write to Google Sheet", "clear")
       \/ \E fault \in ApiFaults :
            wm' = WmThrows(WmLog(wm, "Error reading from Google Sheet"),
                           "Error writing to Google Sheet", "Failed to write to Google Sheet")
    /\ UNCHANGED <<cacheVars, run, service, outputFile, sheet1, initialized>>

\* clearAndWriteSheet: spreadsheets.values.clear (lines 139-142)
SheetsClear ==
    /\ service = "sheets" /\ wm.pc = "clear"
    /\ LET c == [wm EXCEPT !.writes = @ + 1]
       IN  \/ /\ sheet1' = <<>>
              /\ wm' = [c EXCEPT !.pc = "update"]
           \/ \E fault \in ApiFaults :
                /\ wm' = WmThrows(c, "Error writing to Google Sheet", "Failed to write to Google Sheet")
                /\ UNCHANGED sheet1
    /\ UNCHANGED <<cacheVars, run, service, outputFile, initialized>>

\* clearAndWriteSheet: spreadsheets.values.update at Sheet1!A1 (lines 144-149)
SheetsUpdate ==
    /\ service = "sheets" /\ wm.pc = "update"
    /\ LET c == [wm EXCEPT !.writes = @ + 1]
       IN  \/ /\ sheet1' = SheetValues(c.allMovements)
              /\ wm' = [Returned(WmLog(c, "Google Sheet updated")) EXCEPT
                           !.added = Len(c.newMovements)]
           \/ \E fault \in ApiFaults :
                /\ wm' = WmThrows(c, "Error writing to Google Sheet", "Failed to write to Google Sheet")
                /\ UNCHANGED sheet1
    /\ UNCHANGED <<cacheVars, run, service, outputFile, initialized>>

\* ---- the output services over what earlier runs left
NoCache ==
    /\ now = 0
    /\ dirExists = FALSE
    /\ files = [k \in Keys |-> NoFile]
    /\ task = [t \in Tasks |-> Idle]
    /\ settled = NotSettled
    /\ cacheLifetime = DefaultOptions.lifetime
    /\ staleAfter = DefaultOptions.staleAfter

\* rows of an earlier run, in chronological order or not
StoredRows == {<<>>, <<RecordA>>, <<RecordA, RecordB>>}

OutputInit ==
    /\ NoCache
    /\ service \in {"csv", "sheets"}
    /\ \/ /\ service = "csv"
          /\ outputFile \in {NoCsvFile} \cup
                {WriteRecords(NoCsvFile, rows, FALSE) : rows \in StoredRows \ {<<>>}}
          /\ sheet1 = <<>>
       \/ /\ service = "sheets"
          /\ outputFile = NoCsvFile
          /\ sheet1 \in {<<>>} \cup {SheetValues(rows) : rows \in StoredRows}
    /\ initialized = FALSE
    /\ wm = NotCalled
    /\ run = NotRunning

OutputNext ==
    \/ \E movements \in Batches : WithinBounds(movements) /\ CsvCall(movements)
    \/ CsvAccess
    \/ CsvRead
    \/ CsvWrite
    \/ \E id \in SpreadsheetIds, movements \in Batches :
            WithinBounds(movements) /\ SheetsCall(id, movements)
    \/ SheetsInitialize
    \/ SheetsRead
    \/ SheetsClear
    \/ SheetsUpdate

OutputSpec == OutputInit /\ [][OutputNext]_vars

\* one call of writeMovements over what earlier runs left
MergeNext ==
    \/ \E movements \in Batches : wm.pc = "idle" /\ CsvCall(movements)
    \/ CsvAccess
    \/ CsvRead
    \/ CsvWrite
    \/ \E id \in SpreadsheetIds, movements \in Batches :
            wm.pc = "idle" /\ SheetsCall(id, movements)
    \/ SheetsInitialize
    \/ SheetsRead
    \/ SheetsClear
    \/ SheetsUpdate

MergeSpec == OutputInit /\ [][MergeNext]_vars

\* ---- the sheet write of index.js: updateOrAppendMovements
\* (googleSheetsService.js lines 206-263, the class that index.js line 40 calls)
\* an earlier movement of the card of RecordA
RecordEarlier == Movement(<<"A">>, <<"Backlog">>, <<"To-Do">>, <<"11:00">>)

\* the catch of updateOrAppendMovements (lines 259-262): log, throw error
UpdateThrows(c, error) ==
    [Returned(WmLog(c, "Error updating Google Sheet")) EXCEPT !.error = error]

\* existingData.findIndex(row => row[0] === movement.cardName), from 1
RECURSIVE FindIndex(_, _, _)
FindIndex(existingData, cardName, i) ==
    IF i > Len(existingData) THEN 0
    ELSE IF Cell(existingData[i], 1) = cardName THEN i
    ELSE FindIndex(existingData, cardName, i + 1)

\* existingCards.has(movement.cardName) (lines 217, 224)
HasCard(existingData, m) == FindIndex(existingData, m.cardName, 1) # 0

\* spreadsheets.values.update at Sheet1!A<rowIndex>:D<rowIndex> (lines 236-248)
UpdateRange(rows, rowIndex, m) == [rows EXCEPT ![rowIndex] = CsvLine(m)]

\* index.js line 40: sheetsService.updateOrAppendMovements(spreadsheetId, movements)
UpdateOrAppendCall(spreadsheetId, movements) ==
    /\ service = "sheets"
    /\ wm.pc \in {"idle", "done"}
    /\ wm' = [Called(movements) EXCEPT
                 !.pc = "initialize-old", !.spreadsheetId = spreadsheetId]
    /\ UNCHANGED <<cacheVars, run, service, outputFile, sheet1, initialized>>

\* await this.initialize() (line 207, lines 167-178), outside the try
UpdateInitialize ==
    /\ service = "sheets" /\ wm.pc = "initialize-old"
    /\ \/ /\ initialized' = TRUE
          /\ wm' = [wm EXCEPT !.pc = "get-old"]
       \/ /\ ~initialized
          /\ \E fault \in ApiFaults : wm' = [Returned(wm) EXCEPT !.error = fault]
          /\ UNCHANGED initialized
    /\ UNCHANGED <<cacheVars, run, service, outputFile, sheet1>>

\* spreadsheets.values.get, then the split of the batch (lines 211-229) and
\* the tests of lines 232 and 254
UpdateGet ==
    /\ service = "sheets" /\ wm.pc = "get-old"
    /\ \/ \E values \in Responses(sheet1) :
            LET existingData == ValuesOrEmpty(values)
                updateMovements == SelectSeq(wm.movements, LAMBDA m : HasCard(existingData, m))
                newMovements == SelectSeq(wm.movements, LAMBDA m : ~HasCard(existingData, m))
                read == [wm EXCEPT !.existingData = existingData,
                                   !.updateMovements = updateMovements,
                                   !.newMovements = newMovements]
            IN  wm' = IF ~IsArray(wm.movements)
                      THEN UpdateThrows(wm, "movements.forEach is not a function")
                      ELSE IF Len(updateMovements) > 0 THEN [read EXCEPT !.pc = "patch"]
                      ELSE IF Len(newMovements) > 0 THEN [read EXCEPT !.pc = "append"]
                      ELSE Returned(WmLog(read, "Data successfully updated in Google Sheet"))
       \/ \E fault \in ApiFaults : wm' = UpdateThrows(wm, fault)
    /\ UNCHANGED <<cacheVars, run, service, outputFile, sheet1, initialized>>

\* one turn of the loop of lines 233-250: the row of the first match is updated
UpdateRow ==
    /\ service = "sheets" /\ wm.pc = "patch"
    /\ LET movement == Head(wm.updateMovements)
           rowIndex == FindIndex(wm.existingData, movement.cardName, 1)
           c == [wm EXCEPT !.writes = @ + 1, !.updateMovements = Tail(@)]
       IN  \/ /\ sheet1' = UpdateRange(sheet1, rowIndex, movement)
              /\ wm' = IF Len(c.updateMovements) > 0 THEN c
                       ELSE IF Len(c.newMovements) > 0 THEN [c EXCEPT !.pc = "append"]
                       ELSE Returned(WmLog(c, "Data successfully updated in Google Sheet"))
           \/ \E fault \in ApiFaults :
                /\ wm' = UpdateThrows(c, fault)
                /\ UNCHANGED sheet1
    /\ UNCHANGED <<cacheVars, run, service, outputFile, initialized>>

\* appendMovements (lines 180-204): spreadsheets.values.append with INSERT_ROWS
AppendRows ==
    /\ service = "sheets" /\ wm.pc = "append"
    /\ LET c == [wm EXCEPT !.writes = @ + 1]
       IN  \/ /\ sheet1' = sheet1 \o CsvLines(c.newMovements)
              /\ wm' = [Returned(WmLog(WmLog(c, "Data successfully appended to Google Sheet"),
                                       "Data successfully updated in Google Sheet")) EXCEPT
                           !.added = Len(c.newMovements)]
           \/ \E fault \in ApiFaults :
                /\ wm' = UpdateThrows(WmLog(c, "Error appending to Google Sheet"), fault)
                /\ UNCHANGED sheet1
    /\ UNCHANGED <<cacheVars, run, service, outputFile, initialized>>

\* the sheet as earlier runs left it: the rows alone (index.js), or the header
\* and the rows (writeMovements)
UpdateInit ==
    /\ NoCache
    /\ service = "sheets"
    /\ outputFile = NoCsvFile
    /\ sheet1 \in {CsvLines(rows) : rows \in StoredRows \cup {<<RecordEarlier>>}}
                  \cup {SheetValues(rows) : rows \in StoredRows \cup {<<RecordEarlier>>}}
    /\ initialized = FALSE
    /\ wm = NotCalled
    /\ run = NotRunning

UpdateNext ==
    \/ \E movements \in Batches :
            /\ IsArray(movements) => Len(sheet1) + Len(movements) <= MaxRows + 1
            /\ UpdateOrAppendCall("sheet-id", movements)
    \/ UpdateInitialize
    \/ UpdateGet
    \/ UpdateRow
    \/ AppendRows

UpdateSpec == UpdateInit /\ [][UpdateNext]_vars

\* ------------------------------------------------- claims about the merge
\* the identity key of a movement: the 4-tuple of its fields
IdentityKey(m) == <<m.cardName, m.oldLocation, m.newLocation, m.timestamp>>
IdentityKeys(s) == {IdentityKey(s[i]) : i \in 1..Len(s)}

\* the rows the output holds, exactly as written, and its header lines
OutputLines == IF service = "csv" THEN outputFile.lines ELSE sheet1
Persisted == IF OutputLines = <<>> THEN <<>> ELSE Tail(OutputLines)

\* the call of writeMovements returns in this step; it returned normally
Returns == wm.pc \notin {"idle", "done"} /\ wm'.pc = "done"
ReturnedNormally == wm.pc = "done" /\ wm.error = "none"

\* the call is about to read the output / to write allMovements to it
Reading == wm.pc \in {"read", "get"}
Persisting == wm.pc \in {"write", "update"}

\* C12 as stated: merge idempotence.  When writeMovements is run a second
\* time with the batch of the run before it (which returned normally), and
\* the output could be read, the second run leaves the output as the first
\* left it and reports 0 records added.
C12_SecondRunAddsNothing ==
    [][wm.rerun /\ "Error reading existing CSV" \notin wm'.logged =>
          /\ UNCHANGED <<outputFile, sheet1>>
          /\ wm'.pc = "done" /\ wm'.error = "none" => wm'.added = 0]_vars

\* C13 as stated: merge uniqueness.  After a writeMovements that returned
\* normally, no two rows of the output carry the same identity key (the
\* outputs of earlier runs have unique keys).
C13_PersistedKeysUnique ==
    ReturnedNormally =>
        \A i, j \in 1..Len(Persisted) : i # j => Persisted[i] # Persisted[j]

\* C14 as stated: merge ordering.  After a writeMovements that added at least
\* one record, no row of the output comes before a row with an earlier parsed
\* timestamp.
C14_PersistedInTimestampOrder ==
    ReturnedNormally /\ wm.added > 0 =>
        \A i, j \in 1..Len(Persisted) :
            i < j => ~(/\ DateParse(Persisted[i][4]) # NaN
                       /\ DateParse(Persisted[j][4]) # NaN
                       /\ DateParse(Persisted[j][4]) < DateParse(Persisted[i][4]))

\* C15 as stated: a batch of two structurally identical records merged into
\* an empty output adds exactly 1 record, and the output holds it once.
C15_DuplicateIncomingCountsOnce ==
    [][/\ Persisting /\ Returns /\ wm'.error = "none"
       /\ wm.existing = <<>>
       /\ Len(wm.movements) = 2 /\ wm.movements[1] = wm.movements[2]
       => /\ wm'.added = 1
          /\ OutputLines' = <<Header, CsvLine(wm.movements[1])>>]_vars

\* the incoming records whose identity key is not among those of `existing`
RECURSIVE Surviving(_, _)
Surviving(existing, incoming) ==
    IF incoming = <<>> THEN <<>>
    ELSE (IF IdentityKey(Head(incoming)) \in IdentityKeys(existing)
          THEN <<>> ELSE <<Head(incoming)>>)
         \o Surviving(existing, Tail(incoming))

\* C16 as stated: merge result content.  The merge keeps every existing
\* record, adds exactly the incoming records whose identity key is not in
\* existing, and reports their number: when the existing records have been
\* read, either something survives and the records to write are existing
\* plus the survivors in some order, or nothing survives and 0 is reported.
C16_ResultIsExistingPlusSurvivors ==
    [][Reading /\ IsArray(wm.movements) /\ wm' # wm /\ wm'.error = "none" =>
          LET existing == IF wm'.pc = "done" THEN Stored ELSE wm'.existing
              survivors == Surviving(existing, wm.movements)
          IN  IF survivors = <<>>
              THEN wm'.pc = "done" /\ wm'.added = 0
              ELSE /\ wm'.pc \in {"write", "clear"}
                   /\ wm'.newMovements = survivors
                   /\ wm'.allMovements \in Orders(existing \o survivors)]_vars

\* C17 as stated: zero writes when nothing is new.  When the identity key of
\* every incoming record is already in the output (or the batch is empty),
\* writeMovements returns without a write, clear or update, and the output
\* is unchanged.
C17_NothingNewNothingWritten ==
    [][/\ Reading /\ IsArray(wm.movements) /\ wm' # wm
       /\ IdentityKeys(wm.movements) \subseteq IdentityKeys(Stored)
       => /\ wm'.pc = "done"
          /\ wm'.writes = 0
          /\ UNCHANGED <<outputFile, sheet1>>]_vars

\* C18 as stated: an unparsable timestamp is fatal.  A writeMovements whose
\* batch holds a record with an unparsable timestamp does not return
\* normally, and it writes nothing to the output.
C18_UnparsableTimestampIsFatal ==
    /\ wm.pc = "done"
    /\ \E i \in 1..Len(wm.movements) : DateParse(wm.movements[i].timestamp) = NaN
    => wm.error # "none" /\ wm.writes = 0

\* C19: full overwrite, not append.  In the step in which a writeMovements
\* that had something new returns normally, the output becomes one header
\* line followed by the merged records, each once: as many rows as there
\* were existing records plus new ones, the old content not kept in front.
C19_FullOverwrite ==
    [][Persisting /\ Returns /\ wm'.error = "none" =>
          /\ OutputLines' = <<Header>> \o CsvLines(wm.allMovements)
          /\ wm.allMovements \in Orders(wm.existing \o wm.newMovements)
          /\ Len(OutputLines') = 1 + Len(wm.existing) + Len(wm.newMovements)
          /\ wm'.added = Len(wm.newMovements)
          /\ wm'.added > 0]_vars

\* a CSV file that held one record holds two after one more was added
C19_Witness ==
    /\ service = "csv"
    /\ ReturnedNormally
    /\ wm.added = 1
    /\ "Error reading existing CSV" \notin wm.logged
    /\ Len(outputFile.lines) = 3
    /\ outputFile.lines[1] = Header

\* ============================================ TrelloService and the CLI run
\* (src/src/services/trelloService.js: getBoards, fetchBoards,
\* getBoardActions, fetchBoardActions, main)
\*
\* main runs once, in the caller's task: it calls the cache through
\* TrelloService and then the output services.  A call into the cache or
\* into an output service is made when that component is idle; its steps are
\* the component's own; main goes on when the call has returned.

\* process.argv.slice(2)
ArgLists ==
    {<<>>, <<"--fresh">>, <<"b1">>, <<"b1", "--fresh">>, <<"b1", "--force">>,
     <<"b1", "sheet-id">>, <<"b1", "sheet-id", "--fresh">>, <<"b1", "sheet-id", "--force">>}

\* args.includes(a)
Includes(args, a) == \E i \in 1..Len(args) : args[i] = a

\* arg.startsWith('--')
StartsWithDashes(arg) == arg \in {"--fresh", "--force"}

\* args.filter(arg => !arg.startsWith('--'))
NonFlagArgs(args) == SelectSeq(args, LAMBDA arg : ~StartsWithDashes(arg))

\* nonFlagArgs[i]: undefined (here "", falsy as well) beyond the end
ArgAt(nonFlagArgs, i) == IF i <= Len(nonFlagArgs) THEN nonFlagArgs[i] ELSE ""

\* const forceFresh = args.includes('--fresh')
ForceFresh(args) == Includes(args, "--fresh")

\* 'boards' and `board_actions_${boardId}`
BoardActionsKey(boardId) == "board_actions_b1"
ResourceKey(resource, boardId) ==
    IF resource = "boards" THEN "boards" ELSE BoardActionsKey(boardId)
TrelloKeys == {"boards", BoardActionsKey("b1")}

\* actions.map(action => ({cardName, oldLocation, newLocation, timestamp}))
MovementsOf(actions) == IF actions = 1 THEN <<RecordA>> ELSE <<RecordA, RecordB>>

RunLog(r, msg) == [r EXCEPT !.logged = @ \cup {msg}]

\* main returns, or its catch logs and calls process.exit(1) (lines 267-270)
Exits(r, code) == [r EXCEPT !.pc = "exited", !.exitCode = code]
FailsWithZero(r, error) == Exits([RunLog(r, "Application error") EXCEPT !.error = error], 0)
Fails(r, error) == Exits([RunLog(r, "Application error") EXCEPT !.error = error], 1)

\* getBoards / getBoardActions throws `error` to its caller: to main's
\* catch, or to another caller
Throws(r, error) ==
    IF r.caller = "main"
    THEN Fails(r, error)
    ELSE [r EXCEPT !.pc = "thrown", !.data = Null, !.error = error]

\* new Error(`Failed to fetch boards: ${error.message}`)
NewError(prefix, message) == prefix \o ": " \o message

\* the catch of getBoards / getBoardActions: log, throw new Error(...)
\* (lines 143-146, 189-192)
FetchFails(r, message) ==
    LET caught == [r EXCEPT !.cause = message]
    IN  IF r.resource = "boards"
        THEN Throws(RunLog(caught, "Error fetching boards"),
                    NewError("Failed to fetch boards", message))
        ELSE Throws(RunLog(caught, "Error fetching board actions"),
                    NewError("Failed to fetch board actions", message))

\* getBoards / getBoardActions returns `v`: to main, which goes on to its
\* next await (lines 245-257), or to another caller
Obtains(r, v) ==
    IF r.caller # "main"
    THEN [r EXCEPT !.pc = "returned", !.data = Null, !.result = v]
    ELSE IF r.resource = "boards"
    THEN [RunLog(r, "Available boards") EXCEPT
            !.boards = v, !.data = Null, !.resource = "actions", !.pc = "entry",
            !.cached = Null, !.requests = 0]
    ELSE [r EXCEPT !.actions = v, !.data = Null, !.pc = "csv"]

\* process.exit(1) ends the background tasks too
Alive == ~(run.pc = "exited" /\ run.exitCode = 1)

\* main up to its first await (lines 226-245)
MainParse ==
    /\ run.pc = "main"
    /\ LET nonFlagArgs == NonFlagArgs(run.args)
           parsed == [run EXCEPT !.forceFresh = ForceFresh(run.args),
                                 !.boardId = ArgAt(nonFlagArgs, 1),
                                 !.spreadsheetId = ArgAt(nonFlagArgs, 2)]
       IN  run' = IF parsed.boardId = ""
                  THEN Exits(RunLog(parsed, "Please provide a board ID as an argument"), 0)
                  ELSE [parsed EXCEPT !.resource = "boards", !.pc = "entry"]
    /\ UNCHANGED <<cacheVars, service, outputFile, sheet1, initialized, wm>>

\* getBoards(forceFresh) / getBoardActions(boardId, forceFresh): if (!forceFresh)
\* if (!forceFresh)
ReadsCacheAlways(forceFresh) == TRUE
ReadsCache(forceFresh) == ~forceFresh

\* getBoardActions without a board id throws before its try (lines 175-177)
GetResource ==
    /\ run.pc = "entry"
    /\ run' = IF run.resource = "actions" /\ run.boardId = ""
              THEN Throws(run, "Board ID is required")
              ELSE [run EXCEPT !.pc = IF ReadsCache(run.forceFresh) THEN "get" ELSE "fetch"]
    /\ UNCHANGED <<cacheVars, service, outputFile, sheet1, initialized, wm>>

\* this.cacheService.get(cacheKey, () => this.fetchBoards()) is called
CacheGetCalled ==
    /\ run.pc = "get"
    /\ task[Main].pc = "idle"
    /\ CallGet(ResourceKey(run.resource, run.boardId), TRUE)

\* if (cached) return cached
ReturnsCachedNever(cached) == FALSE
ReturnsCached(cached) == cached # Null

\* ... and has returned: if (cached) return cached (lines 139, 185)
CacheGetReturns ==
    /\ run.pc = "get"
    /\ task[Main].op = "get" /\ task[Main].pc = "done"
    /\ LET cached == task[Main].result
           got == [run EXCEPT !.cached = cached]
       IN  run' = IF ReturnsCached(cached) THEN Obtains(got, cached)
                  ELSE [got EXCEPT !.pc = "fetch"]
    /\ task' = [task EXCEPT ![Main] = Idle]
    /\ UNCHANGED <<now, dirExists, files, settled, cacheLifetime, staleAfter,
                   service, outputFile, sheet1, initialized, wm>>

\* what axios.get rejects with
ApiErrors == {"Network error"}

\* fetchBoards / fetchBoardActions on the caller's path: axios.get settles
\* (lines 155-162, 202-212)
Fetch ==
    /\ run.pc = "fetch"
    /\ LET requested == [run EXCEPT !.requests = @ + 1]
       IN  \/ \E v \in Values : run' = [requested EXCEPT !.data = v, !.pc = "set"]
           \/ \E message \in ApiErrors : run' = FetchFails(requested, message)
    /\ UNCHANGED <<cacheVars, service, outputFile, sheet1, initialized, wm>>

\* await this.cacheService.set(key, boards) is called (lines 164, 214)
CacheSetCalled ==
    /\ run.pc = "set"
    /\ task[Main].pc = "idle"
    /\ CallSet(ResourceKey(run.resource, run.boardId), run.data)

\* ... and has settled: return boards, or its error goes to the catch
CacheSetReturns ==
    /\ run.pc = "set"
    /\ task[Main].op = "set" /\ task[Main].pc = "done"
    /\ run' = IF task[Main].error = "none"
              THEN Obtains(run, run.data)
              ELSE FetchFails(run, task[Main].error)
    /\ task' = [task EXCEPT ![Main] = Idle]
    /\ UNCHANGED <<now, dirExists, files, settled, cacheLifetime, staleAfter,
                   service, outputFile, sheet1, initialized, wm>>

\* the producer of a refresh is fetchBoards / fetchBoardActions: axios.get
\* settles, and on success the producer itself calls cacheService.set
ProducerFetch(t) ==
    /\ Alive
    /\ task[t].op = "refresh" /\ task[t].pc = "fetch"
    /\ \/ \E v \in Values :
            Continue(t, BeginSet([task[t] EXCEPT !.op = "producer", !.fresh = v], v))
       \/ Continue(t, RefreshCatch(task[t], "FetchError"))
    /\ UNCHANGED <<now, dirExists, files, cacheLifetime, staleAfter, outputVars>>

\* the producer settles: refreshCache goes on with this.set(key, freshData)
\* (line 101), or its catch takes the producer's error
ProducerSettles(t) ==
    /\ Alive
    /\ task[t].op = "producer" /\ task[t].pc = "done"
    /\ LET tk == [task[t] EXCEPT !.op = "refresh", !.error = "none", !.writes = 0]
       IN  IF task[t].error = "none"
           THEN Continue(t, BeginSet(tk, tk.fresh))
           ELSE Continue(t, RefreshCatch(tk, task[t].error))
    /\ UNCHANGED <<now, dirExists, files, cacheLifetime, staleAfter, outputVars>>

\* await csvService.writeMovements(movements) is called (line 260)
CsvCalled ==
    /\ run.pc = "csv"
    /\ wm.pc = "idle"
    /\ CsvCall(MovementsOf(run.actions))

\* ... and has settled: if (spreadsheetId) the sheet is next (lines 263-265)
CsvReturns ==
    /\ run.pc = "csv"
    /\ service = "csv" /\ wm.pc = "done"
    /\ IF wm.error # "none"
       THEN run' = Fails(run, wm.error) /\ UNCHANGED <<service, wm>>
       ELSE IF run.spreadsheetId # ""
       THEN run' = [run EXCEPT !.pc = "sheets"] /\ service' = "sheets" /\ wm' = NotCalled
       ELSE run' = Exits(run, 0) /\ UNCHANGED <<service, wm>>
    /\ UNCHANGED <<cacheVars, outputFile, sheet1, initialized>>

\* await sheetsService.writeMovements(spreadsheetId, movements) is called
SheetsCalled ==
    /\ run.pc = "sheets"
    /\ wm.pc = "idle"
    /\ SheetsCall(run.spreadsheetId, MovementsOf(run.actions))

\* ... and has settled: main returns, or its catch exits
SheetsReturns ==
    /\ run.pc = "sheets"
    /\ service = "sheets" /\ wm.pc = "done"
    /\ run' = IF wm.error # "none" THEN Fails(run, wm.error) ELSE Exits(run, 0)
    /\ UNCHANGED <<cacheVars, service, outputFile, sheet1, initialized, wm>>

\* a run of the program over what earlier runs left
StartedWith(args) == [NotRunning EXCEPT !.pc = "main", !.caller = "main", !.args = args]

CliInit ==
    /\ now = 0
    /\ files \in [TrelloKeys -> {NoFile, JSONstringify(CacheData(0, 1))}]
    /\ dirExists = TRUE
    /\ cacheLifetime = DefaultOptions.lifetime
    /\ staleAfter = DefaultOptions.staleAfter
    /\ task = [t \in Tasks |-> Idle]
    /\ settled = NotSettled
    /\ service = "csv"
    /\ \/ outputFile = NoCsvFile /\ sheet1 = <<>>
       \/ /\ outputFile = WriteRecords(NoCsvFile, <<RecordA>>, FALSE)
          /\ sheet1 = SheetValues(<<RecordA>>)
    /\ initialized = FALSE
    /\ wm = NotCalled
    /\ \E args \in ArgLists : run = StartedWith(args)

CliNext ==
    \/ MainParse
    \/ GetResource
    \/ CacheGetCalled
    \/ GetMkdir
    \/ GetReadFile
    \/ DelMkdir
    \/ DelUnlink
    \/ CacheGetReturns
    \/ Fetch
    \/ CacheSetCalled
    \/ SetMkdir(Main)
    \/ SetWriteFile(Main)
    \/ CacheSetReturns
    \/ \E t \in Background : ProducerFetch(t)
    \/ \E t \in Background : ProducerSettles(t)
    \/ \E t \in Background : Alive /\ SetMkdir(t)
    \/ \E t \in Background : Alive /\ SetWriteFile(t)
    \/ CsvCalled
    \/ CsvAccess
    \/ CsvRead
    \/ CsvWrite
    \/ CsvReturns
    \/ SheetsCalled
    \/ SheetsInitialize
    \/ SheetsRead
    \/ SheetsClear
    \/ SheetsUpdate
    \/ SheetsReturns
    \/ Tick

CliSpec == CliInit /\ [][CliNext]_vars

\* ------------------------------------------------------------------- C20
\* C20: a run with a board id and the documented flag --force never reads
\* the cache: neither getBoards nor getBoardActions calls cacheService.get.
C20_ForceFlagBypassesCache ==
    (Includes(run.args, "--force") /\ ArgAt(NonFlagArgs(run.args), 1) # "")
        => (run.pc # "get" /\ task[Main].op # "get")

\* ================================================ TrelloService's callers
\* a caller other than main (the tests) calls getBoards(forceFresh), or
\* getBoardActions(boardId, forceFresh), one call after the other, over the
\* cache and while the refreshes its earlier calls started are still
\* running.  The two resources have separate cache keys and share nothing
\* else, so a behaviour follows the calls for one of them: the cache
\* directory holds that resource's file only.
BoardIds == {"", "b1"}

\* trelloService.getBoards(forceFresh) / getBoardActions(boardId, forceFresh)
TrelloCall(resource, boardId, forceFresh) ==
    /\ run.pc \in {"none", "returned", "thrown"}
    /\ task[Main].pc = "idle"
    /\ ResourceKey(resource, "b1") \in DOMAIN files
    /\ run' = [NotRunning EXCEPT !.pc = "entry", !.caller = "direct",
                                 !.resource = resource, !.boardId = boardId,
                                 !.forceFresh = forceFresh]
    /\ UNCHANGED <<cacheVars, service, outputFile, sheet1, initialized, wm>>

TrelloInit ==
    /\ now = 0
    /\ \E k \in TrelloKeys : files \in [{k} -> {NoFile, JSONstringify(CacheData(0, 1))}]
    /\ dirExists = TRUE
    /\ cacheLifetime = DefaultOptions.lifetime
    /\ staleAfter = DefaultOptions.staleAfter
    /\ task = [t \in Tasks |-> Idle]
    /\ settled = NotSettled
    /\ NoOutput

TrelloNext ==
    \/ \E forceFresh \in BOOLEAN : TrelloCall("boards", "", forceFresh)
    \/ \E boardId \in BoardIds, forceFresh \in BOOLEAN : TrelloCall("actions", boardId, forceFresh)
    \/ GetResource
    \/ CacheGetCalled
    \/ GetMkdir
    \/ GetReadFile
    \/ DelMkdir
    \/ DelUnlink
    \/ CacheGetReturns
    \/ Fetch
    \/ CacheSetCalled
    \/ SetMkdir(Main)
    \/ SetWriteFile(Main)
    \/ CacheSetReturns
    \/ \E t \in Background : ProducerFetch(t)
    \/ \E t \in Background : ProducerSettles(t)
    \/ \E t \in Background : SetMkdir(t)
    \/ \E t \in Background : SetWriteFile(t)
    \/ Tick

TrelloSpec == TrelloInit /\ [][TrelloNext]_vars

\* ------------------------------------------------------------------- C21
\* the cache key of the call in progress, and the steps of a call
TrelloKey == ResourceKey(run.resource, run.boardId)
HasBoard == run.resource = "boards" \/ run.boardId # ""
Ended == run.pc \in {"returned", "thrown"}
StoresFresh ==
    /\ run.pc = "set" /\ task[Main].pc = "writeFile"
    /\ task'[Main].pc = "done" /\ task'[Main].error = "none"
ReadWithinStaleAfter ==
    /\ run.pc = "get" /\ run'.pc # "get"
    /\ task[Main].parsed.ok /\ task[Main].parsed.timestamp # Undefined
    /\ task[Main].dateNow - task[Main].parsed.timestamp <= staleAfter

C22_CacheHitShortCircuits ==
    (~run.forceFresh /\ run.cached # Null /\ run.pc \notin {"get", "none"}) =>
        /\ run.pc = "returned"
        /\ run.result = run.cached
        /\ run.requests = 0

\* a call returned the cached value while the refresh it started is fetching
C22_Witness ==
    /\ run.pc = "returned" /\ ~run.forceFresh /\ run.cached # Null
    /\ \E t \in Background : task[t].op = "refresh" /\ task[t].pc = "fetch"

\* ------------------------------------------------------------------- C23
\* C23: when the remote request or the store fails on the foreground path,
\* the caller of getBoards / getBoardActions receives that same error,
\* unmodified.
C23_ForegroundErrorUnmodified ==
    (run.pc = "thrown" /\ run.cause # "none") => run.error = run.cause

\* ------------------------------------------------------------------- C24
\* the call of GoogleSheetsService.writeMovements in progress or just ended
SheetsCalledWith == service = "sheets" /\ wm.pc # "idle"
NoRemoteCall ==
    /\ wm.pc = "done" /\ wm.writes = 0 /\ wm.logged = {}
    /\ wm.existing = <<>> /\ wm.added = 0

\* C24: writeMovements without a spreadsheet id fails with 'Spreadsheet ID is
\* required', and with a movements argument that is not an array fails with
\* 'Movements must be an array'; the call fails in its first step, which
\* leaves the service unauthenticated as it was and the sheet untouched.
C24_SheetInputValidation ==
    [][ /\ (SheetsCalledWith' /\ wm'.spreadsheetId = "") =>
              (NoRemoteCall' /\ wm'.error = "Spreadsheet ID is required")
        /\ (SheetsCalledWith' /\ wm'.spreadsheetId # "" /\ ~IsArray(wm'.movements)) =>
              (NoRemoteCall' /\ wm'.error = "Movements must be an array")
        /\ (SheetsCalledWith' /\ wm' # wm /\
            wm'.error \in {"Spreadsheet ID is required", "Movements must be an array"}) =>
              (wm.pc \in {"idle", "done"} /\ UNCHANGED <<initialized, sheet1>>)
      ]_vars

\* a call with something that is not an array was refused before the service
\* ever authenticated, over a sheet that holds rows
C24_Witness ==
    /\ SheetsCalledWith /\ wm.spreadsheetId # "" /\ ~IsArray(wm.movements)
    /\ wm.error = "Movements must be an array"
    /\ ~initialized /\ sheet1 # <<>>

\* ------------------------------------------------------------------- C25
\* the output holds nothing: no file; a sheet with no rows or a header only
HoldsNothing == IF service = "csv" THEN ~outputFile.exists ELSE Len(sheet1) <= 1
ReadFailed ==
    wm'.logged \cap {"Error reading existing CSV", "Error reading from Google Sheet"} # {}

\* C25: reading an output that holds nothing yields the empty collection and
\* no error.  When writeMovements reads a file that does not exist, or a sheet
\* with no rows, no values field or a header row only, and the request itself
\* does not fail, the call goes on with no existing movement: every incoming
\* movement is new, and nothing is logged or thrown for the read.
C25_NothingStoredReadsEmpty ==
    [][ (Reading /\ HoldsNothing /\ IsArray(wm.movements) /\ wm' # wm /\ ~ReadFailed) =>
          /\ wm'.error = "none"
          /\ wm'.logged \subseteq {"No new movements to write",
                                   "No new movements to write to Google Sheet"}
          /\ IF wm.movements = <<>>
             THEN wm'.pc = "done" /\ wm'.added = 0
             ELSE /\ wm'.pc \in {"write", "clear"}
                  /\ wm'.existing = <<>>
                  /\ wm'.newMovements = wm.movements
      ]_vars

\* a sheet that holds its header row only has been read: nothing existing
C25_Witness ==
    /\ service = "sheets" /\ wm.pc = "clear" /\ Len(sheet1) = 1
    /\ wm.existing = <<>> /\ wm.newMovements # <<>>

\* ================================================== gets in quick succession
\* a caller whose gets follow one another while the refreshes of its earlier
\* gets are still in flight: one refresh task more than elsewhere can run.
\* Nothing removes the cache directory here, so no write is retried.
Concurrent == 1..(MaxRefresh + 1)

ConcurrentInit ==
    /\ now = 0
    /\ files \in [Keys -> InitContents]
    /\ dirExists \in BOOLEAN
    /\ (\E k \in Keys : files[k] # NoFile) => dirExists
    /\ cacheLifetime = DefaultOptions.lifetime
    /\ staleAfter = DefaultOptions.staleAfter
    /\ task = [t \in {Main} \cup Concurrent |-> Idle]
    /\ settled = NotSettled
    /\ NoOutput

ConcurrentNext ==
    \/ \E k \in Keys, producer \in BOOLEAN : CallGet(k, producer)
    \/ GetMkdir
    \/ GetReadFile
    \/ DelMkdir
    \/ DelUnlink
    \/ \E t \in Concurrent : RefreshFetch(t)
    \/ \E t \in Concurrent : SetMkdir(t)
    \/ \E t \in Concurrent : SetWriteFile(t)
    \/ Tick

ConcurrentSpec == ConcurrentInit /\ [][ConcurrentNext]_vars

\* ------------------------------------------------------------------- C26
\* refreshCache is entered in slot t: the producer is invoked
Initiated(t) == task[t].pc = "idle" /\ task'[t].op = "refresh" /\ task'[t].pc = "fetch"

\* the caller's get(key, producer) reads an entry that is stale, not expired
ObservesStale ==
    /\ Caller.op = "get" /\ Caller.pc = "readFile" /\ Caller.fetchFresh
    /\ task'[Main].parsed.ok
    /\ LET age == Age(task'[Main].dateNow, task'[Main].parsed.timestamp)
       IN  GreaterThan(age, staleAfter) /\ ~GreaterThan(age, cacheLifetime)

\* C26: a producer is invoked exactly by the gets that observe a stale entry,
\* once by each and for the key of the get, whether or not a refresh of that
\* key is already in flight: refreshes are not coalesced.
C26_OneProducerPerStaleGet ==
    [][ LET initiated == {t \in Concurrent : Initiated(t)}
        IN  /\ Cardinality(initiated) <= 1
            /\ (initiated # {}) <=> ObservesStale
            /\ \A t \in initiated : task'[t].key = Caller.key
      ]_vars

\* two producer calls for the same key are in flight at once
C26_Witness ==
    \E t, u \in Concurrent :
        /\ t # u
        /\ task[t].op = "refresh" /\ task[t].pc = "fetch"
        /\ task[u].op = "refresh" /\ task[u].pc = "fetch"
        /\ task[t].key = task[u].key

\* ------------------------------------------------------------------- C27
\* C27: get does not wait for the refresh.  In the very step in which get
\* reads a stale entry it returns the entry's value, without an error, while
\* the producer of the refresh it started has not settled; and no later step
\* of a refresh task changes anything of the caller's call.
C27_GetDoesNotAwaitRefresh ==
    [][ /\ ObservesStale =>
              /\ task'[Main].pc = "done"
              /\ task'[Main].result = task'[Main].parsed.value
              /\ task'[Main].error = "none"
              /\ \E t \in Background : Initiated(t) /\ task'[Main].refresh = t
        /\ \A t \in Background :
              (task'[t] # task[t] /\ ~Initiated(t)) => task'[Main] = task[Main]
      ]_vars

\* get has returned the stale value at a later clock reading than the one
\* it took, and the producer of its refresh has still not settled
C27_Witness ==
    /\ GetReturned /\ Caller.refresh # 0 /\ Caller.result = Caller.parsed.value
    /\ task[Caller.refresh].op = "refresh" /\ task[Caller.refresh].pc = "fetch"
    /\ now > Caller.dateNow

\* ------------------------------------------------------------------- C28
\* the producer of refresh task t rejects in this step
ProducerFails(t) ==
    /\ task[t].op = "refresh" /\ task[t].pc = "fetch"
    /\ task'[t] # task[t]
    /\ task'[t].value \notin Values

\* C28: a failed background refresh leaves the cache as it was.  When the
\* producer fails the refresh ends there: it has written nothing and writes
\* nothing, every stored entry keeps its value and its storedAt, and the
\* failure is logged.
C28_FailedRefreshLeavesCache ==
    [][ \A t \in Background :
            ProducerFails(t) =>
                /\ files' = files
                /\ task'[t] = Idle
                /\ task[t] = StartRefresh(task[t].key)
                /\ "Cache refresh error" \in settled'.logged
                /\ settled'.rejection = "caught"
      ]_vars

\* a refresh has failed, and the entry the get had read is still stored
C28_Witness ==
    /\ settled.rejection = "caught"
    /\ GetReturned /\ Caller.refresh # 0 /\ task[Caller.refresh].pc = "idle"
    /\ files[Caller.key] =
          JSONstringify(CacheData(Caller.parsed.timestamp, Caller.parsed.value))

\* ------------------------------------------------------------------- C29
\* a step of the caller's get
GetSteps == Caller.op = "get" /\ Caller.pc # "done" /\ task'[Main] # task[Main]

\* the get reads an entry that is fresh, or stale with no producer supplied
ReadsServable ==
    /\ Caller.op = "get" /\ Caller.pc = "readFile"
    /\ task'[Main].parsed.ok
    /\ LET age == Age(task'[Main].dateNow, task'[Main].parsed.timestamp)
       IN  /\ ~GreaterThan(age, cacheLifetime)
           /\ ~GreaterThan(age, staleAfter) \/ ~Caller.fetchFresh

\* C29: reads do not mutate entries.  A get that finds a fresh entry, or a
\* stale one with no producer, returns its value, starts no refresh and
\* leaves every stored entry as it is; a step of get changes storage only by
\* removing the entry of its key after reading it as expired; and a refresh
\* task changes storage only by the write of its set, which stores its value
\* and storedAt under its key.
C29_ReadsDoNotMutate ==
    [][ /\ ReadsServable =>
              /\ task'[Main].pc = "done"
              /\ task'[Main].result = task'[Main].parsed.value
              /\ task'[Main].refresh = 0
              /\ \A t \in Background : task'[t] = task[t]
              /\ files' = files
        /\ (GetSteps /\ files' # files) =>
              /\ Caller.pc = "unlink"
              /\ GreaterThan(Age(Caller.dateNow, Caller.parsed.timestamp), cacheLifetime)
              /\ files' = [files EXCEPT ![Caller.key] = NoFile]
        /\ \A t \in Background :
              (task'[t] # task[t] /\ files' # files) =>
                  /\ files' = [files EXCEPT ![task[t].key] =
                                  JSONstringify(CacheData(task[t].timestamp, task[t].value))]
                  /\ task[t].value \in Values
                  /\ settled'.rejection = "fulfilled"
      ]_vars

\* a get without a producer returned a stale entry, which is stored as it was
C29_Witness ==
    /\ GetReturned /\ ~Caller.fetchFresh /\ ReadEntry
    /\ AgeRead > staleAfter
    /\ Caller.result = Caller.parsed.value
    /\ files[Caller.key] =
          JSONstringify(CacheData(Caller.parsed.timestamp, Caller.parsed.value))

\* ------------------------------------------------------------------- C30
\* C30 as stated: identity is the exact 4-tuple.  When the existing records
\* have been read, an incoming record is discarded if and only if some
\* existing record has the same cardName, oldLocation, newLocation and
\* timestamp; every other incoming record is among the records added.
C30_IdentityIsExactTuple ==
    [][Reading /\ IsArray(wm.movements) /\ wm' # wm /\ wm'.error = "none" =>
          LET existing == IF wm'.pc = "done" THEN Stored ELSE wm'.existing
              added == IF wm'.pc = "done" THEN <<>> ELSE wm'.newMovements
          IN  \A i \in 1..Len(wm.movements) :
                  (\E j \in 1..Len(existing) :
                      IdentityKey(existing[j]) = IdentityKey(wm.movements[i]))
                  <=> ~(\E j \in 1..Len(added) : added[j] = wm.movements[i])]_vars

\* ------------------------------------------------------------------- C31
\* the records of s whose timestamp parses to d, in the order s has them
Dated(s, d) == SelectSeq(s, LAMBDA m : DateParse(m.timestamp) = d)

RowsRead == IF wm.pc = "get-old" THEN ValuesGet(sheet1) ELSE wm.existingData

\* the sheet write of index.js returns normally in this step
UpdateReturns ==
    /\ wm.pc \in {"get-old", "patch", "append"}
    /\ wm'.pc = "done" /\ wm'.error = "none"

\* C32 as stated: history is reconciled, never patched in place.  When the
\* CLI's sheet write returns, every row the sheet held is still a row of the
\* sheet and every movement of the batch is a row of the sheet: a stored
\* movement of a card and an incoming movement of the same card with another
\* timestamp are both present, and no row was overwritten by matching on the
\* card name.
C32_NoRowPatchedByCardName ==
    [][UpdateReturns =>
          /\ \A i \in DOMAIN RowsRead :
                \E j \in DOMAIN sheet1' : sheet1'[j] = RowsRead[i]
          /\ \A i \in DOMAIN wm.movements :
                \E j \in DOMAIN sheet1' : sheet1'[j] = CsvLine(wm.movements[i])]_vars

\* ------------------------------------------------------------------- C33
\* the get of a non-forced getBoards / getBoardActions reads the store in
\* this step, and the store holds an entry of the resource whose age is
\* within staleAfter
ReadsWhileFresh ==
    /\ run.pc = "get" /\ ~run.forceFresh
    /\ task[Main].op = "get" /\ task[Main].pc = "readFile" /\ task'[Main].pc # "readFile"
    /\ files[TrelloKey].kind = "json"
    /\ files[TrelloKey].timestamp # Undefined
    /\ now - files[TrelloKey].timestamp <= staleAfter

\* the step starts a background refresh
RefreshBegins ==
    \E t \in Background : task[t].op # "refresh" /\ task'[t].op = "refresh"

\* C33 as stated: no redundant fetch while fresh.  Every non-forced call made
\* while the stored entry of its resource is no older than staleAfter gets
\* the stored value from the cache and starts no refresh; having got it, the
\* call returns it and has made no remote request.
C33_NoFetchWhileFresh ==
    [][ /\ ReadsWhileFresh =>
              /\ task'[Main].pc = "done"
              /\ task'[Main].result = files[TrelloKey].value
              /\ ~RefreshBegins
        /\ (run.pc = "get" /\ ~run.forceFresh /\ run'.pc # "get" /\ task[Main].result # Null) =>
              /\ run'.pc = "returned"
              /\ run'.result = task[Main].result
              /\ run'.requests = 0
      ]_vars

\* C33, amended: the same, for the calls whose read of the entry succeeds.  A
\* call whose read of the entry fails finds a miss, and then fetches.
C33_NoFetchWhileFreshAndReadable ==
    [][ /\ (ReadsWhileFresh /\ task'[Main].caught = "none") =>
              /\ task'[Main].pc = "done"
              /\ task'[Main].result = files[TrelloKey].value
              /\ ~RefreshBegins
        /\ (ReadsWhileFresh /\ task'[Main].caught # "none") =>
              /\ task'[Main].result = Null
              /\ ~RefreshBegins
        /\ (run.pc = "get" /\ ~run.forceFresh /\ run'.pc # "get" /\ task[Main].result # Null) =>
              /\ run'.pc = "returned"
              /\ run'.result = task[Main].result
              /\ run'.requests = 0
        /\ run'.requests > run.requests =>
              run.forceFresh \/ run.cached = Null
      ]_vars

\* a call found nothing cached, fetched and stored; the entry it stored is
\* within staleAfter and a non-forced call has returned it without a request
C33_Witness ==
    /\ run.pc = "returned" /\ ~run.forceFresh /\ run.requests = 0
    /\ run.cached # Null /\ run.result = run.cached
    /\ files[TrelloKey].kind = "json"
    /\ files[TrelloKey].value = run.result
    /\ files[TrelloKey].timestamp > 0
    /\ now - files[TrelloKey].timestamp <= staleAfter
    /\ \A t \in Background : task[t].pc = "idle"

\* ------------------------------------------------------------------- C34
\* the step of main that is in progress ends with a fault that reaches main
StepFaults ==
    \/ run.pc = "entry" /\ run.resource = "actions" /\ run.boardId = ""
    \/ run.pc = "fetch" /\ run'.cause # run.cause
    \/ run.pc = "set" /\ run'.pc # "set" /\ task[Main].error # "none"
    \/ run.pc \in {"csv", "sheets"} /\ run'.pc \notin {"csv", "sheets"} /\ wm.error # "none"

\* process.exit(1) was called
ExitedNonzero == run.pc = "exited" /\ run.exitCode = 1

\* C34: the CLI fails fast.  A run fetches the boards, then the actions, then
\* writes the CSV file, then, only when a spreadsheet id was given, the sheet:
\* no step begins before the one ahead of it has returned normally.  The first
\* step whose fault reaches main ends the process with exit code 1 after
\* "Application error" is logged, and after that nothing is executed: no
\* file, sheet or cache entry changes and no request is made.
C34_CliFailsFast ==
    [][ /\ (run.resource = "boards" /\ run'.resource = "actions") =>
              (run.pc \in {"get", "set"} /\ run'.boards # Null /\ run'.pc = "entry")
        /\ (run.pc # "csv" /\ run'.pc = "csv") =>
              (run.resource = "actions" /\ run.boards # Null /\ run'.actions # Null
                 /\ wm.pc = "idle" /\ service = "csv")
        /\ wm.pc = "idle" /\ wm'.pc # "idle" /\ service = "csv" =>
              (run.pc = "csv" /\ run.actions # Null)
        /\ service' # service =>
              /\ service' = "sheets" /\ run'.pc = "sheets"
              /\ run.pc = "csv" /\ wm.pc = "done" /\ wm.error = "none"
              /\ run.spreadsheetId # ""
        /\ service = "sheets" /\ wm.pc = "idle" /\ wm'.pc # "idle" =>
              (run.pc = "sheets" /\ wm'.spreadsheetId = run.spreadsheetId)
        /\ sheet1' # sheet1 => (service = "sheets" /\ run.pc = "sheets" /\ run.spreadsheetId # "")
        /\ (run.pc # "exited" /\ StepFaults) =>
              /\ ExitedNonzero'
              /\ "Application error" \in run'.logged
              /\ run'.error # "none"
        /\ (run.pc # "exited" /\ ExitedNonzero') => StepFaults
        /\ ExitedNonzero =>
              UNCHANGED <<dirExists, files, task, settled, service, outputFile,
                          sheet1, initialized, wm, run>>
      ]_vars

\* the CSV write of a run with a spreadsheet id failed: the process has
\* exited with code 1 and the sheet was not written
C34_Witness ==
    /\ ExitedNonzero /\ "Application error" \in run.logged
    /\ run.spreadsheetId # "" /\ run.boards # Null /\ run.actions # Null
    /\ service = "csv" /\ wm.pc = "done" /\ wm.error # "none"
    /\ sheet1 \in {<<>>, SheetValues(<<RecordA>>)}

\* ------------------------------------------------------------------- C35
\* C35 as stated: one write per refresh.  The only step of a background
\* refresh that writes the entry of its key is the write of the set that the
\* refresh task issues with the producer's result; the producer it runs
\* (fetchBoards / fetchBoardActions after a stale hit) writes nothing.
C35_OneWritePerRefresh ==
    [][\A t \in Background :
          (task[t].pc = "writeFile" /\ task'[t] # task[t]
             /\ files'[task[t].key] # files[task[t].key]) =>
                task[t].op = "refresh"]_vars

\* ------------------------------------------------------------------- C36
\* delete(key) has completed and the caller has issued nothing since
DeleteCompleted ==
    task[Main].op = "delete" /\ task[Main].pc = "done" /\ task[Main].error = "none"

\* a refresh of key k is in flight
RefreshInFlight(k) ==
    \E t \in Background : task[t].op = "refresh" /\ task[t].key = k

\* C36 as stated: delete is not undone by the cache itself.  Once delete(key)
\* has completed, the entry of key is absent for as long as the caller issues
\* no new call, whatever a refresh started before the delete does.
C36_DeleteIsNotUndone ==
    DeleteCompleted => files[task[Main].key] = NoFile

\* C36, amended: when delete(key) completes the entry of key is absent, and
\* it stays absent until a set for key writes it: a set of the caller, or the
\* set of a background refresh, which is not cancelled by the delete.  While
\* no refresh of key is in flight, the entry stays absent until the caller's
\* next set.
C36_DeleteUndoneOnlyBySet ==
    [][ /\ (task[Main].op = "delete" /\ ~DeleteCompleted /\ DeleteCompleted') =>
              files'[task[Main].key] = NoFile
        /\ \A k \in Keys :
              (files[k] = NoFile /\ files'[k] # NoFile) =>
                  \E t \in Tasks :
                      /\ task[t].op \in {"set", "refresh"} /\ task[t].key = k
                      /\ task[t].pc \in {"writeFile", "retry_write"}
                      /\ files'[k] = JSONstringify(CacheData(task[t].timestamp, task[t].value))
        /\ (DeleteCompleted /\ ~RefreshInFlight(task[Main].key)
              /\ files[task[Main].key] = NoFile /\ DeleteCompleted') =>
                  files'[task[Main].key] = NoFile
      ]_vars

\* after a completed delete, with no call of the caller since, the entry is
\* there again: the refresh that was in flight has stored it
C36_Witness ==
    /\ DeleteCompleted
    /\ files[task[Main].key].kind = "json"
    /\ files[task[Main].key].timestamp # Undefined
    /\ settled.rejection = "fulfilled"

\* ------------------------------------------------------------------- C37
\* a forced-fresh call has fetched, stored and returned, and the caller has
\* made no call since: every refresh still running was started, and sent its
\* request, before that call's fetch
ForcedReturned == run.forceFresh /\ run.pc = "returned"

\* C37 as stated: newer data is not replaced by older data.  After a
\* forced-fresh fetch has stored its data, the stored value stays the data of
\* that fetch: no refresh that was started before it replaces it.
C37_NewerNotReplacedByOlder ==
    ForcedReturned =>
        /\ files[TrelloKey].kind = "json"
        /\ files[TrelloKey].value = run.result

\* C37, amended: the last write wins.  When the write of a forced-fresh fetch
\* completes the store holds its data; afterwards the entry changes only by
\* the write of a background refresh, which was started before that fetch,
\* and then holds the data of that refresh.
C37_LastWriteWins ==
    [][ /\ (run.forceFresh /\ StoresFresh) =>
              files'[TrelloKey] = JSONstringify(CacheData(task[Main].timestamp, run.data))
        /\ (ForcedReturned /\ ForcedReturned' /\ files'[TrelloKey] # files[TrelloKey]) =>
              \E t \in Background :
                  /\ task[t].op \in {"producer", "refresh"} /\ task[t].key = TrelloKey
                  /\ task[t].pc = "writeFile"
                  /\ files'[TrelloKey] = JSONstringify(CacheData(task[t].timestamp, task[t].value))
      ]_vars

\* the data a forced-fresh call stored and returned has been replaced by the
\* data of a refresh that was started before it
C37_Witness ==
    /\ ForcedReturned
    /\ files[TrelloKey].kind = "json"
    /\ files[TrelloKey].value # run.result

\* ------------------------------------------------------------------- C38
\* C38 as stated: a failed sheet write loses nothing.  When writeMovements
\* of the sheet service rejects because the clear or the update failed, the
\* sheet holds every record it held when the call read it.
C38_FailedSheetWriteLosesNothing ==
    [][(service = "sheets" /\ wm.pc \in {"clear", "update"}
          /\ wm'.pc = "done" /\ wm'.error # "none") =>
            \A i \in DOMAIN wm.existing :
                \E j \in DOMAIN SheetMovements(ValuesGet(sheet1')) :
                    SheetMovements(ValuesGet(sheet1'))[j] = wm.existing[i]]_vars

\* ------------------------------------------------------------------- C39
\* the records of the CSV file `file`, as a reader finds them
FileRecords(file) == IF file.exists THEN CsvParse(file.lines) ELSE <<>>

\* C39 as stated: the CSV sink never shrinks.  Every record that is in the
\* CSV file before a step of CsvService.writeMovements is in it after the
\* step, also in a call whose read of the existing file failed.
C39_CsvNeverShrinks ==
    [][service = "csv" =>
          \A i \in DOMAIN FileRecords(outputFile) :
              \E j \in DOMAIN FileRecords(outputFile') :
                  FileRecords(outputFile')[j] = FileRecords(outputFile)[i]]_vars

\* ------------------------------------------------------------------- C40
\* C40 as stated: an entry without a usable storedAt is not served.  A get
\* returns a value only when the content it read carries a storedAt and the
\* age computed from it is <= lifetime; content that deserializes but has no
\* storedAt is a miss.
C40_NoStoredAtIsMiss ==
    (GetReturned /\ Caller.result # Null) =>
        (ReadEntry /\ AgeRead <= cacheLifetime)

====
